---- MODULE Spec2Model ----
(***************************************************************************)
(* A model of the PodConfigMapController: the API server's Pods,           *)
(* PodConfigMapConfigs (PCMCs) and ConfigMaps, the two informer caches,    *)
(* the two rate limited work queues, the Pod worker and the PCMC worker    *)
(* (split at every API call), owner-reference garbage collection and the   *)
(* lease based leader election of main.go.                                 *)
(***************************************************************************)
EXTENDS Integers, Sequences, FiniteSets, TLC

VARIABLES
    pods,        \* API server: Pod name -> Pod or Absent
    pcmcs,       \* API server: PCMC name -> PodConfigMapConfig or Absent
    cms,         \* API server: ConfigMap name -> ConfigMap or Absent
    nextUid,     \* API server: the uid the next created object gets
    podCache,    \* Pod informer store (podLister)
    pcmcCache,   \* PCMC informer store (pcmcInformer.GetIndexer())
    synced,      \* [pod, pcmc]: HasSynced of the two informers
    queues,      \* [pod, pcmc]: podQueue and pcmcQueue
    workers,     \* [pod, pcmc]: position and locals of runPodWorker / runPcmcWorker
    role,        \* replica -> "candidate" | "leading" | "stopping"
    lease,       \* the Lease object: holder, seconds since its last renewal, transitions
    budget,      \* what the environment may still do: edits and API failures
    calls,       \* per-pair sync driver: per call, the ConfigMap before it and its writes
    fn,          \* pure function driver: the arguments and the results so far
    podPrograms, \* eBPF Manager.podPrograms: Pod uid -> PodProgram
    manager      \* eBPF Manager: its context, its goroutines, the handles no
                 \* PodProgram of the map holds, and what the last call returned

vars == <<pods, pcmcs, cms, nextUid, podCache, pcmcCache, synced, queues,
          workers, role, lease, budget, calls, fn, podPrograms, manager>>

apiVars == <<pods, pcmcs, cms, nextUid>>
ctrlVars == <<podCache, pcmcCache, synced, queues, workers>>
leaderVars == <<role, lease>>

-----------------------------------------------------------------------------
(* Bounds of the model *)

MaxEvents == 1        \* edits of Pods and PCMCs by the cluster's users
MaxApiFailures == 1   \* API calls that fail with a transient error
MaxUid == 4           \* objects created over a run
MaxSyncCalls == 2     \* calls of the per-pair sync on the same Pod and PCMC
MaxTransitions == 1   \* changes of the holder of the leader lease

PodNames == {"w1", "w2"}
PcmcNames == {"p1"}
Replicas == {"r1", "r2"}
Namespace == "default"
NodeName == "node-a"
WorkerIds == {"pod", "pcmc"}

EmptyMap == [k \in {} |-> ""]
PodLabelChoices == {("app" :> "web"), ("app" :> "api")}
PhaseChoices == {"Running"}

NoSelector == [set |-> FALSE, matchLabels |-> EmptyMap]
WebSelector == [set |-> TRUE, matchLabels |-> ("app" :> "web")]
SelectorChoices == {NoSelector, WebSelector}
IncludeChoices == {<<>>, <<"app">>}

Absent == [exists |-> FALSE]


-----------------------------------------------------------------------------
(* Objects *)

Pod(name, uid, labels, phase) ==
    [exists |-> TRUE, name |-> name, namespace |-> Namespace, uid |-> uid,
     labels |-> labels, annotations |-> EmptyMap, nodeName |-> NodeName,
     phase |-> phase]

Pcmc(name, uid, generation, observed, selector, labelsToInclude) ==
    [exists |-> TRUE, name |-> name, namespace |-> Namespace, uid |-> uid,
     generation |-> generation, observedGeneration |-> observed,
     podSelector |-> selector, labelsToInclude |-> labelsToInclude,
     annotationsToInclude |-> <<>>, ebpfConfig |-> Absent]

-----------------------------------------------------------------------------
(* Pure functions of the validation package and of syncConfigMapForPod *)

MaxConfigMapNameLength == 253
MaxConfigMapDataKeyLength == 253

LowerChars == {"a", "b", "c", "d", "e", "f", "g", "h", "i", "j", "k", "l", "m",
               "n", "o", "p", "q", "r", "s", "t", "u", "v", "w", "x", "y", "z"}
UpperChars == {"A", "B", "C", "D", "E", "F", "G", "H", "I", "J", "K", "L", "M",
               "N", "O", "P", "Q", "R", "S", "T", "U", "V", "W", "X", "Y", "Z"}
DigitChars == {"0", "1", "2", "3", "4", "5", "6", "7", "8", "9"}

CharAt(s, i) == SubSeq(s, i, i)

\* configMapNameRegex: ^[a-z0-9]([-a-z0-9]*[a-z0-9])?$
configMapNameRegex(name) ==
    /\ Len(name) >= 1
    /\ CharAt(name, 1) \in LowerChars \cup DigitChars
    /\ CharAt(name, Len(name)) \in LowerChars \cup DigitChars
    /\ \A i \in 1..Len(name) : CharAt(name, i) \in LowerChars \cup DigitChars \cup {"-"}

\* TRUE when the name is accepted (the Go function returns nil)
ValidateConfigMapName(name) ==
    /\ name # ""
    /\ Len(name) <= MaxConfigMapNameLength
    /\ configMapNameRegex(name)

isValidConfigMapKey(key) ==
    /\ \A i \in 1..Len(key) :
          CharAt(key, i) \in LowerChars \cup UpperChars \cup DigitChars \cup {"_", "."}
    /\ ~(Len(key) > 0 /\ CharAt(key, 1) \in DigitChars)

validateConfigMapDataKey(key) ==
    /\ key # ""
    /\ Len(key) <= MaxConfigMapDataKeyLength
    /\ isValidConfigMapKey(key)

\* a validation that accepts every data key
AcceptAnyData(data) == TRUE

\* TRUE when every key is accepted (values of the model are far below 1MB)
ValidateConfigMapData(data) ==
    \A key \in DOMAIN data : validateConfigMapDataKey(key)

\* a validation that accepts a Pod in any phase
AcceptAnyPod(pod) == pod.name # "" /\ pod.namespace # ""

isValidPodPhase(phase) == phase \in {"Pending", "Running", "Succeeded", "Failed"}

ValidatePod(pod) ==
    /\ pod.name # ""
    /\ pod.namespace # ""
    /\ isValidPodPhase(pod.phase)

\* strings.ToLower on the letters of the model's alphabet
ToLower(c) ==
    IF c \in UpperChars
    THEN (CHOOSE l \in LowerChars :
             \E i \in 1..26 : CharAt("ABCDEFGHIJKLMNOPQRSTUVWXYZ", i) = c
                              /\ CharAt("abcdefghijklmnopqrstuvwxyz", i) = l)
    ELSE c

\* the loop of SanitizeConfigMapName over the characters of the lowered name
\* (the name is split in halves to keep the evaluation shallow)
RECURSIVE ReplaceInvalid(_)
ReplaceInvalid(name) ==
    IF name = "" THEN ""
    ELSE IF Len(name) = 1
    THEN LET c == ToLower(name)
         IN IF c \in LowerChars \cup DigitChars \cup {"-"} THEN c ELSE "-"
    ELSE ReplaceInvalid(SubSeq(name, 1, Len(name) \div 2))
            \o ReplaceInvalid(SubSeq(name, Len(name) \div 2 + 1, Len(name)))

\* strings.TrimLeft(s, c) and strings.TrimRight(s, c) for a one character cutset
TrimLeft(s, c) ==
    LET kept == {i \in 1..Len(s) : CharAt(s, i) # c}
    IN IF kept = {} THEN ""
       ELSE SubSeq(s, CHOOSE i \in kept : \A j \in kept : i <= j, Len(s))

TrimRight(s, c) ==
    LET kept == {i \in 1..Len(s) : CharAt(s, i) # c}
    IN IF kept = {} THEN ""
       ELSE SubSeq(s, 1, CHOOSE i \in kept : \A j \in kept : i >= j)

Trim(s, c) == TrimRight(TrimLeft(s, c), c)

\* a sanitize that truncates without trimming the hyphens the cut exposes
SanitizeNoRetrim(name) ==
    LET trimmed == Trim(ReplaceInvalid(name), "-")
        result == IF trimmed = "" THEN "configmap" ELSE trimmed
    IN IF Len(result) > MaxConfigMapNameLength
       THEN SubSeq(result, 1, MaxConfigMapNameLength)
       ELSE result

\* a sanitize that removes one hyphen at each end instead of all of them
SanitizeTrimOnce(name) ==
    LET replaced == ReplaceInvalid(name)
        left == IF replaced # "" /\ CharAt(replaced, 1) = "-"
                THEN SubSeq(replaced, 2, Len(replaced)) ELSE replaced
        trimmed == IF left # "" /\ CharAt(left, Len(left)) = "-"
                   THEN SubSeq(left, 1, Len(left) - 1) ELSE left
        result == IF trimmed = "" THEN "configmap" ELSE trimmed
    IN IF Len(result) > MaxConfigMapNameLength
       THEN TrimRight(SubSeq(result, 1, MaxConfigMapNameLength), "-")
       ELSE result

SanitizeConfigMapName(name) ==
    LET trimmed == Trim(ReplaceInvalid(name), "-")
        result == IF trimmed = "" THEN "configmap" ELSE trimmed
    IN IF Len(result) > MaxConfigMapNameLength
       THEN TrimRight(SubSeq(result, 1, MaxConfigMapNameLength), "-")
       ELSE result

generateConfigMapName(podName, pcmcName) ==
    "pod-" \o podName \o "-from-" \o pcmcName \o "-cfg"

\* metav1.LabelSelectorAsSelector(sel).Matches(labels) for matchLabels selectors
SelectorMatches(sel, labels) ==
    \A k \in DOMAIN sel.matchLabels :
        k \in DOMAIN labels /\ labels[k] = sel.matchLabels[k]

Range(seq) == {seq[i] : i \in 1..Len(seq)}

MapOfPairs(S) == [k \in {e[1] : e \in S} |-> (CHOOSE e \in S : e[1] = k)[2]]

\* the loops over LabelsToInclude and AnnotationsToInclude: every listed key
\* that the Pod carries is written to the map under its prefix
RECURSIVE AddIncluded(_, _, _, _)
AddIncluded(data, prefix, keys, carried) ==
    IF keys = <<>> THEN data
    ELSE LET k == Head(keys)
         IN AddIncluded(IF k \in DOMAIN carried
                        THEN ((prefix \o k) :> carried[k]) @@ data ELSE data,
                        prefix, Tail(keys), carried)

\* a projection that writes the listed keys the Pod does not carry as well
ConfigDataAbsentToo(pod, pcmc) ==
    MapOfPairs(
        {<<"podName", pod.name>>, <<"namespace", pod.namespace>>,
         <<"nodeName", pod.nodeName>>, <<"phase", pod.phase>>,
         <<"pcmcName", pcmc.name>>}
        \cup {<<"label_" \o k, IF k \in DOMAIN pod.labels THEN pod.labels[k] ELSE "">> :
                 k \in Range(pcmc.labelsToInclude)}
        \cup {<<"annotation_" \o k,
                IF k \in DOMAIN pod.annotations THEN pod.annotations[k] ELSE "">> :
                 k \in Range(pcmc.annotationsToInclude)})

\* configData of syncConfigMapForPod
ConfigData(pod, pcmc) ==
    LET mandatory == ("podName" :> pod.name) @@ ("namespace" :> pod.namespace)
                     @@ ("nodeName" :> pod.nodeName) @@ ("phase" :> pod.phase)
                     @@ ("pcmcName" :> pcmc.name)
        labelled == AddIncluded(mandatory, "label_", pcmc.labelsToInclude, pod.labels)
    IN AddIncluded(labelled, "annotation_", pcmc.annotationsToInclude, pod.annotations)

\* metav1.NewControllerRef(pod, ...)
OwnerRef(pod) == [kind |-> "Pod", name |-> pod.name, uid |-> pod.uid, controller |-> TRUE]

GeneratedByLabel == "podconfig.example.com/generated-by-pcmc"
PodUidLabel == "podconfig.example.com/pod-uid"

CmLabels(pod, pcmc) == (GeneratedByLabel :> pcmc.name) @@ (PodUidLabel :> pod.uid)

\* the ConfigMap the NotFound branch creates
DesiredCM(pod, pcmc) ==
    [exists |-> TRUE, name |-> generateConfigMapName(pod.name, pcmc.name),
     namespace |-> pod.namespace, data |-> ConfigData(pod, pcmc),
     owners |-> <<OwnerRef(pod)>>, labels |-> CmLabels(pod, pcmc)]

\* an update that replaces the labels of the ConfigMap by the reserved two
ReplaceLabels(existing, pod, pcmc) ==
    [existing EXCEPT
        !.data = ConfigData(pod, pcmc),
        !.owners = <<OwnerRef(pod)>>,
        !.labels = CmLabels(pod, pcmc)]

\* the diff of the update branch: existingCM after the three comparisons
MergedCM(existing, pod, pcmc) ==
    [existing EXCEPT
        !.data = ConfigData(pod, pcmc),
        !.owners = <<OwnerRef(pod)>>,
        !.labels = [k \in DOMAIN existing.labels \cup DOMAIN CmLabels(pod, pcmc) |->
                       IF k \in DOMAIN CmLabels(pod, pcmc)
                       THEN CmLabels(pod, pcmc)[k] ELSE existing.labels[k]]]

\* a sync that writes the ConfigMap whether it differs or not
AlwaysUpdate(existing, pod, pcmc) == existing.exists

NeedsUpdate(existing, pod, pcmc) == MergedCM(existing, pod, pcmc) # existing

CMNames == {generateConfigMapName(w, p) : w \in PodNames, p \in PcmcNames}


-----------------------------------------------------------------------------
(* Work queue keys *)

\* cache.MetaNamespaceKeyFunc
MetaNamespaceKey(name) == Namespace \o "/" \o name

DeletedPrefix == "DELETED:"

HasPrefix(s, prefix) ==
    Len(s) >= Len(prefix) /\ SubSeq(s, 1, Len(prefix)) = prefix

TrimPrefix(s, prefix) ==
    IF HasPrefix(s, prefix) THEN SubSeq(s, Len(prefix) + 1, Len(s)) ELSE s

\* cache.SplitMetaNamespaceKey: the part after the first "/"
KeyName(key) ==
    LET i == CHOOSE j \in 1..Len(key) :
                 CharAt(key, j) = "/" /\ \A m \in 1..(j - 1) : CharAt(key, m) # "/"
    IN SubSeq(key, i + 1, Len(key))

-----------------------------------------------------------------------------
(* workqueue.RateLimitingInterface: FIFO with a dirty set and a processing  *)
(* set; waiting holds the keys AddRateLimited will add after their delay,   *)
(* backoff the keys the rate limiter counts failures for; shuttingDown is   *)
(* set by ShutDown.                                                         *)

EmptyQueue == [queue |-> <<>>, dirty |-> {}, processing |-> {}, waiting |-> {},
               backoff |-> {}, shuttingDown |-> FALSE]

\* Add that forgets the dirty set: a pending key is queued a second time
QAddDuplicate(q, key) ==
    IF key \in q.processing THEN [q EXCEPT !.dirty = @ \cup {key}]
    ELSE [q EXCEPT !.dirty = @ \cup {key}, !.queue = Append(@, key)]

\* Add that forgets the processing set: the key is queued while it is in flight
QAddWhileProcessing(q, key) ==
    IF key \in q.dirty THEN q
    ELSE [q EXCEPT !.dirty = @ \cup {key}, !.queue = Append(@, key)]

QAdd(q, key) ==
    IF q.shuttingDown THEN q
    ELSE IF key \in q.dirty THEN q
    ELSE IF key \in q.processing THEN [q EXCEPT !.dirty = @ \cup {key}]
    ELSE [q EXCEPT !.dirty = @ \cup {key}, !.queue = Append(@, key)]

QGet(q) ==
    [q EXCEPT !.queue = Tail(@),
              !.processing = @ \cup {Head(q.queue)},
              !.dirty = @ \ {Head(q.queue)}]

QDone(q, key) ==
    IF key \in q.dirty
    THEN [q EXCEPT !.processing = @ \ {key}, !.queue = Append(@, key)]
    ELSE [q EXCEPT !.processing = @ \ {key}]

\* the rate limiter counts the failure; AddAfter returns at once when the
\* queue is shutting down
QAddRateLimited(q, key) ==
    IF q.shuttingDown THEN [q EXCEPT !.backoff = @ \cup {key}]
    ELSE [q EXCEPT !.waiting = @ \cup {key}, !.backoff = @ \cup {key}]

QShutDown(q) == [q EXCEPT !.shuttingDown = TRUE]

\* a Get that never reports shutdown: the caller waits for the next item
QNeverReportsShutdown(q) == FALSE

\* Get returns shutdown = true when the queue is shutting down and no item is
\* left in it
QGetReportsShutdown(q) == q.shuttingDown /\ q.queue = <<>>

QForget(q, key) == [q EXCEPT !.backoff = @ \ {key}]

\* a worker that forgets the key whether its reconcile failed or not
FinishForgetAlways(q, key, failed) == QDone(QForget(q, key), key)

\* the tail of processNextPodWorkItem / processNextPcmcWorkItem:
\* AddRateLimited on error, Forget otherwise, then the deferred Done
FinishWorkItem(q, key, failed) ==
    IF failed THEN QDone(QAddRateLimited(q, key), key)
    ELSE QDone(QForget(q, key), key)

\* an initial list that is stored and not handed to the handlers
QAddNone(q, keys) == q

RECURSIVE QAddAll(_, _)
QAddAll(q, keys) ==
    IF keys = <<>> THEN q ELSE QAddAll(QAdd(q, Head(keys)), Tail(keys))

\* the orders in which a set of keys can be handed to the handlers
Orders(S) ==
    {seq \in [1..Cardinality(S) -> S] : \A k \in S : \E i \in DOMAIN seq : seq[i] = k}

-----------------------------------------------------------------------------
(* Workers *)

RetrySteps == 5    \* retry.DefaultRetry.Steps

\* lastErr of a reconcile that has seen no error (nil)
NoError == ""

IdleWorker ==
    [pc |-> "idle", key |-> "", mode |-> "none", todo |-> {}, pod |-> Absent,
     pcmc |-> Absent, attempt |-> 0, fresh |-> FALSE, lastErr |-> NoError]

Other(w) == IF w = "pod" THEN "pcmc" ELSE "pod"

CurName(r) == generateConfigMapName(r.pod.name, r.pcmc.name)

\* a loop that returns the error of a pair at once: the pairs left are skipped
ReturnAtFirstError(r) == [r EXCEPT !.lastErr = CurName(r), !.todo = {}]

\* the sync (or the delete) of the current pair has returned an error:
\* if lastErr == nil { lastErr = errSync }; the error stands for the pair
SetLastErr(r) == IF r.lastErr = NoError THEN [r EXCEPT !.lastErr = CurName(r)] ELSE r

\* the first lines of syncConfigMapForPod, up to its first API call, for the
\* next pair x of the loop; cleanup mode is handleDeletedPod / handleDeletedPcmc
BeginPair(w, r, x) ==
    LET pod == IF w = "pod" THEN r.pod ELSE x
        pcmc == IF w = "pod" THEN x ELSE r.pcmc
        r1 == [r EXCEPT !.todo = @ \ {x}, !.pod = pod, !.pcmc = pcmc,
                        !.attempt = 0, !.fresh = FALSE]
    IN IF r.mode = "cleanup" THEN [r1 EXCEPT !.pc = "delete"]
       ELSE IF ~ValidateConfigMapName(generateConfigMapName(pod.name, pcmc.name))
            THEN SetLastErr([r1 EXCEPT !.pc = "next"])
       ELSE IF pcmc.podSelector.set /\ ~SelectorMatches(pcmc.podSelector, pod.labels)
            THEN [r1 EXCEPT !.pc = "delete"]
       ELSE IF ~ValidateConfigMapData(ConfigData(pod, pcmc))
            THEN SetLastErr([r1 EXCEPT !.pc = "next"])
       ELSE [r1 EXCEPT !.pc = "get", !.attempt = 1]

\* the range loops of reconcilePod / reconcilePcmc / handleDeleted*: run on to
\* the next API call, or to the end of the reconcile (pc "done")
RECURSIVE Advance(_, _)
Advance(w, r) ==
    IF r.todo = {} THEN {[r EXCEPT !.pc = "done"]}
    ELSE UNION {LET r1 == BeginPair(w, r, x)
                IN IF r1.pc = "next" THEN Advance(w, r1) ELSE {r1} : x \in r.todo}

\* an API server that compares no resourceVersion: a copy never becomes stale
NeverInvalidate(r, name) == r

\* a write of ConfigMap name by someone else makes a copy read before it stale
Invalidate(r, name) ==
    IF r.pc = "update" /\ CurName(r) = name
    THEN [r EXCEPT !.fresh = FALSE] ELSE r

\* worker w goes on from r (its pair is finished) to its next API call or to
\* the end of its work item; ws and qs are the workers and queues to start from
Proceed(w, r, ws, qs) ==
    \E r2 \in Advance(w, r) :
        IF r2.pc = "done"
        THEN /\ workers' = [ws EXCEPT ![w] = IdleWorker]
             /\ queues' = [qs EXCEPT ![w] = FinishWorkItem(@, r2.key, r2.lastErr # NoError)]
        ELSE /\ workers' = [ws EXCEPT ![w] = r2]
             /\ queues' = qs

CachedPods == {podCache[n] : n \in {m \in PodNames : podCache[m].exists}}
CachedPcmcs == {pcmcCache[n] : n \in {m \in PcmcNames : pcmcCache[m].exists}}

Leading == \E r \in Replicas : role[r] = "leading"

\* the root context of main is cancelled and the process has not exited yet
Stopping == \E r \in Replicas : role[r] = "stopping"

\* a Run that starts its workers without waiting for the caches
WorkersStartedAtOnce == Leading \/ Stopping

\* Run has passed WaitForCacheSync and started its two worker goroutines
WorkersStarted == (Leading \/ Stopping) /\ synced["pod"] /\ synced["pcmc"]


\* the sync driver counts the ConfigMap writes of its current call
CountWrite(c) == IF c.n = 0 THEN c ELSE [c EXCEPT !.writes[c.n] = @ + 1]

NamedOnly(name) == [exists |-> FALSE, name |-> name]

UseFailure == budget.failures > 0 /\ budget' = [budget EXCEPT !.failures = @ - 1]

\* an updatePcmcStatus that writes the status on every reconcile
StatusAlwaysWritten(pcmc) == TRUE

\* updatePcmcStatus returns without a call when the cached PCMC has
\* observedGeneration equal to generation
NeedsStatusUpdate(pcmc) == pcmc.observedGeneration # pcmc.generation

\* processNextPodWorkItem up to the first API call of reconcilePod
PodDequeue ==
    /\ WorkersStarted
    /\ workers["pod"].pc = "idle"
    /\ queues["pod"].queue # <<>>
    /\ LET key == Head(queues["pod"].queue)
           qs == [queues EXCEPT !["pod"] = QGet(@)]
           pod == podCache[KeyName(key)]
           r == [IdleWorker EXCEPT !.key = key]
       IN IF ~pod.exists
          THEN \* handleDeletedPod
               Proceed("pod", [r EXCEPT !.mode = "cleanup", !.todo = CachedPcmcs,
                                        !.pod = NamedOnly(KeyName(key))], workers, qs)
          ELSE IF ~ValidatePod(pod)
          THEN Proceed("pod", r, workers, qs)
          ELSE Proceed("pod", [r EXCEPT !.mode = "sync", !.todo = CachedPcmcs,
                                        !.pod = pod], workers, qs)
    /\ UNCHANGED <<apiVars, podCache, pcmcCache, synced, leaderVars, budget, calls, fn, podPrograms, manager>>

\* processNextPcmcWorkItem up to the first API call of reconcilePcmc
PcmcDequeue ==
    /\ WorkersStarted
    /\ workers["pcmc"].pc = "idle"
    /\ queues["pcmc"].queue # <<>>
    /\ LET keyObj == Head(queues["pcmc"].queue)
           qs == [queues EXCEPT !["pcmc"] = QGet(@)]
           isDelete == HasPrefix(keyObj, DeletedPrefix)
           name == KeyName(TrimPrefix(keyObj, DeletedPrefix))
           typed == pcmcCache[name]
           r == [IdleWorker EXCEPT !.key = keyObj]
       IN IF isDelete \/ ~typed.exists
          THEN \* handleDeletedPcmc
               Proceed("pcmc", [r EXCEPT !.mode = "cleanup", !.todo = CachedPods,
                                         !.pcmc = NamedOnly(name)], workers, qs)
          ELSE IF ~NeedsStatusUpdate(typed)
          THEN \* updatePcmcStatus returns without a call
               Proceed("pcmc", [r EXCEPT !.mode = "sync", !.todo = CachedPods,
                                         !.pcmc = typed], workers, qs)
          ELSE /\ workers' = [workers EXCEPT !["pcmc"] =
                                 [r EXCEPT !.pc = "status", !.mode = "sync", !.pcmc = typed]]
               /\ queues' = qs
    /\ UNCHANGED <<apiVars, podCache, pcmcCache, synced, leaderVars, budget, calls, fn, podPrograms, manager>>

\* a reconcilePcmc that returns the error of updatePcmcStatus
AbortOnStatusError(r, failed) ==
    IF failed THEN [r EXCEPT !.todo = {}, !.lastErr = "status"]
    ELSE [r EXCEPT !.todo = CachedPods]

\* reconcilePcmc after updatePcmcStatus has returned: an error is logged and
\* the Pods of the namespace are listed
ContinueAfterStatus(r, failed) == [r EXCEPT !.todo = CachedPods]

\* an API server that takes a status update whatever resourceVersion it carries
StatusWriteUnchecked(live, submitted) == live.exists

\* the API server takes the update when the submitted object carries the
\* resourceVersion of the live one; equal records stand for equal
\* resourceVersions
StatusWriteAccepted(live, submitted) == live = submitted

\* an update of the whole object: the spec is written and the generation grows
WholeObjectWrite(live, submitted) ==
    [submitted EXCEPT !.generation = @ + 1]

\* UpdateStatus: only the status of the submitted object is stored
StatusWrite(live, submitted) ==
    [live EXCEPT !.observedGeneration = submitted.observedGeneration]

\* pcmcToUpdate of updatePcmcStatus
pcmcToUpdate(current) == [current EXCEPT !.observedGeneration = current.generation]

\* the UpdateStatus call of updatePcmcStatus, then the Pod list of reconcilePcmc
PcmcUpdateStatus ==
    /\ Leading
    /\ workers["pcmc"].pc = "status"
    /\ LET r == workers["pcmc"]
           name == r.pcmc.name
       IN \/ /\ StatusWriteAccepted(pcmcs[name], r.pcmc)
             /\ pcmcs' = [pcmcs EXCEPT ![name] = StatusWrite(@, pcmcToUpdate(r.pcmc))]
             /\ UNCHANGED budget
             /\ Proceed("pcmc", ContinueAfterStatus(r, FALSE), workers, queues)
          \/ /\ ~StatusWriteAccepted(pcmcs[name], r.pcmc)   \* Conflict or NotFound: logged
             /\ UNCHANGED <<pcmcs, budget>>
             /\ Proceed("pcmc", ContinueAfterStatus(r, TRUE), workers, queues)
          \/ /\ UseFailure               \* transient error: logged
             /\ UNCHANGED pcmcs
             /\ Proceed("pcmc", ContinueAfterStatus(r, TRUE), workers, queues)
    /\ UNCHANGED <<pods, cms, nextUid, podCache, pcmcCache, synced, leaderVars, calls, fn, podPrograms, manager>>

\* deleteConfigMapIfExists
SyncDelete(w) ==
    /\ Leading
    /\ workers[w].pc = "delete"
    /\ LET r == workers[w]
           name == CurName(r)
       IN \/ /\ cms' = [cms EXCEPT ![name] = Absent]   \* NotFound is no error
             /\ calls' = IF cms[name].exists THEN CountWrite(calls) ELSE calls
             /\ Proceed(w, r, [workers EXCEPT ![Other(w)] = Invalidate(@, name)], queues)
             /\ UNCHANGED budget
          \/ /\ UseFailure
             /\ Proceed(w, SetLastErr(r), workers, queues)
             /\ UNCHANGED <<cms, calls>>
    /\ UNCHANGED <<pods, pcmcs, nextUid, podCache, pcmcCache, synced, leaderVars, fn, podPrograms, manager>>

\* the Get of the RetryOnConflict closure and the comparisons that follow it
SyncGet(w) ==
    /\ Leading
    /\ workers[w].pc = "get"
    /\ LET r == workers[w]
           existingCM == cms[CurName(r)]
       IN \/ /\ ~existingCM.exists
             /\ workers' = [workers EXCEPT ![w] = [r EXCEPT !.pc = "create"]]
             /\ UNCHANGED <<queues, budget>>
          \/ /\ existingCM.exists
             /\ NeedsUpdate(existingCM, r.pod, r.pcmc)
             /\ workers' = [workers EXCEPT ![w] = [r EXCEPT !.pc = "update", !.fresh = TRUE]]
             /\ UNCHANGED <<queues, budget>>
          \/ /\ existingCM.exists
             /\ ~NeedsUpdate(existingCM, r.pod, r.pcmc)
             /\ Proceed(w, r, workers, queues)
             /\ UNCHANGED budget
          \/ /\ UseFailure
             /\ Proceed(w, SetLastErr(r), workers, queues)
    /\ UNCHANGED <<apiVars, podCache, pcmcCache, synced, leaderVars, calls, fn, podPrograms, manager>>

\* the Create of the NotFound branch
SyncCreate(w) ==
    /\ Leading
    /\ workers[w].pc = "create"
    /\ LET r == workers[w]
           name == CurName(r)
       IN \/ /\ ~cms[name].exists
             /\ cms' = [cms EXCEPT ![name] = DesiredCM(r.pod, r.pcmc)]
             /\ calls' = CountWrite(calls)
             /\ Proceed(w, r, [workers EXCEPT ![Other(w)] = Invalidate(@, name)], queues)
             /\ UNCHANGED budget
          \/ /\ cms[name].exists            \* AlreadyExists: returned
             /\ Proceed(w, SetLastErr(r), workers, queues)
             /\ UNCHANGED <<cms, budget, calls>>
          \/ /\ UseFailure
             /\ Proceed(w, SetLastErr(r), workers, queues)
             /\ UNCHANGED <<cms, calls>>
    /\ UNCHANGED <<pods, pcmcs, nextUid, podCache, pcmcCache, synced, leaderVars, fn, podPrograms, manager>>

\* the Update of the update branch, under RetryOnConflict
SyncUpdate(w) ==
    /\ Leading
    /\ workers[w].pc = "update"
    /\ LET r == workers[w]
           name == CurName(r)
       IN \/ /\ cms[name].exists /\ r.fresh
             /\ cms' = [cms EXCEPT ![name] = MergedCM(@, r.pod, r.pcmc)]
             /\ calls' = CountWrite(calls)
             /\ Proceed(w, r, [workers EXCEPT ![Other(w)] = Invalidate(@, name)], queues)
             /\ UNCHANGED budget
          \/ /\ cms[name].exists /\ ~r.fresh /\ r.attempt < RetrySteps   \* Conflict: retry
             /\ workers' = [workers EXCEPT ![w] =
                               [r EXCEPT !.pc = "get", !.attempt = @ + 1, !.fresh = FALSE]]
             /\ UNCHANGED <<cms, queues, budget, calls>>
          \/ /\ \/ ~cms[name].exists                                  \* NotFound
                \/ cms[name].exists /\ ~r.fresh /\ r.attempt >= RetrySteps
             /\ Proceed(w, SetLastErr(r), workers, queues)
             /\ UNCHANGED <<cms, budget, calls>>
          \/ /\ UseFailure
             /\ Proceed(w, SetLastErr(r), workers, queues)
             /\ UNCHANGED <<cms, calls>>
    /\ UNCHANGED <<pods, pcmcs, nextUid, podCache, pcmcCache, synced, leaderVars, fn, podPrograms, manager>>

\* the delayed Add of AddRateLimited
DelayedAdd(w) ==
    /\ Leading
    /\ \E key \in queues[w].waiting :
          queues' = [queues EXCEPT ![w] = QAdd([@ EXCEPT !.waiting = @ \ {key}], key)]
    /\ UNCHANGED <<apiVars, podCache, pcmcCache, synced, workers, leaderVars, budget, calls, fn, podPrograms, manager>>


-----------------------------------------------------------------------------
(* Informers and their event handlers (NewController) *)

\* enqueuePod
enqueuePod(q, name) == QAdd(q, MetaNamespaceKey(name))

\* enqueuePcmc
enqueuePcmc(q, name) == QAdd(q, MetaNamespaceKey(name))

\* enqueuePcmcForDelete
enqueuePcmcForDelete(q, name) == QAdd(q, DeletedPrefix \o MetaNamespaceKey(name))

\* UpdateFunc of the Pod informer; equal records stand for equal resourceVersions
PodUpdateFunc(q, old, new) ==
    IF old = new /\ old.nodeName = new.nodeName /\ old.labels = new.labels
       /\ old.annotations = new.annotations
    THEN q ELSE enqueuePod(q, new.name)

\* UpdateFunc of the PCMC informer
PcmcUpdateFunc(q, old, new) ==
    IF old = new
       /\ <<old.podSelector, old.labelsToInclude, old.annotationsToInclude>>
          = <<new.podSelector, new.labelsToInclude, new.annotationsToInclude>>
       /\ old.observedGeneration = new.observedGeneration
    THEN q ELSE enqueuePcmc(q, new.name)

\* the initial list of the Pod informer: every Pod is delivered to AddFunc
PodInformerList ==
    /\ Leading
    /\ ~synced["pod"]
    /\ podCache' = pods
    /\ synced' = [synced EXCEPT !["pod"] = TRUE]
    /\ \E order \in Orders({n \in PodNames : pods[n].exists}) :
          queues' = [queues EXCEPT !["pod"] =
                        QAddAll(@, [i \in DOMAIN order |-> MetaNamespaceKey(order[i])])]
    /\ UNCHANGED <<apiVars, pcmcCache, workers, leaderVars, budget, calls, fn, podPrograms, manager>>

\* the initial list of the PCMC informer
PcmcInformerList ==
    /\ Leading
    /\ ~synced["pcmc"]
    /\ pcmcCache' = pcmcs
    /\ synced' = [synced EXCEPT !["pcmc"] = TRUE]
    /\ \E order \in Orders({n \in PcmcNames : pcmcs[n].exists}) :
          queues' = [queues EXCEPT !["pcmc"] =
                        QAddAll(@, [i \in DOMAIN order |-> MetaNamespaceKey(order[i])])]
    /\ UNCHANGED <<apiVars, podCache, workers, leaderVars, budget, calls, fn, podPrograms, manager>>

\* a watch event of one Pod reaches the store and the handlers; a Pod that was
\* deleted and created again is seen as a delete followed by an add
PodInformerEvent(name) ==
    /\ Leading
    /\ synced["pod"]
    /\ podCache[name] # pods[name]
    /\ LET old == podCache[name]
           new == pods[name]
       IN IF ~old.exists
          THEN /\ podCache' = [podCache EXCEPT ![name] = new]
               /\ queues' = [queues EXCEPT !["pod"] = enqueuePod(@, name)]
          ELSE IF new.exists /\ new.uid = old.uid
          THEN /\ podCache' = [podCache EXCEPT ![name] = new]
               /\ queues' = [queues EXCEPT !["pod"] = PodUpdateFunc(@, old, new)]
          ELSE /\ podCache' = [podCache EXCEPT ![name] = Absent]
               /\ queues' = [queues EXCEPT !["pod"] = enqueuePod(@, name)]
    /\ UNCHANGED <<apiVars, pcmcCache, synced, workers, leaderVars, budget, calls, fn, podPrograms, manager>>

\* a watch event of one PCMC reaches the store and the handlers
PcmcInformerEvent(name) ==
    /\ Leading
    /\ synced["pcmc"]
    /\ pcmcCache[name] # pcmcs[name]
    /\ LET old == pcmcCache[name]
           new == pcmcs[name]
       IN IF ~old.exists
          THEN /\ pcmcCache' = [pcmcCache EXCEPT ![name] = new]
               /\ queues' = [queues EXCEPT !["pcmc"] = enqueuePcmc(@, name)]
          ELSE IF new.exists /\ new.uid = old.uid
          THEN /\ pcmcCache' = [pcmcCache EXCEPT ![name] = new]
               /\ queues' = [queues EXCEPT !["pcmc"] = PcmcUpdateFunc(@, old, new)]
          ELSE /\ pcmcCache' = [pcmcCache EXCEPT ![name] = Absent]
               /\ queues' = [queues EXCEPT !["pcmc"] = enqueuePcmcForDelete(@, name)]
    /\ UNCHANGED <<apiVars, podCache, synced, workers, leaderVars, budget, calls, fn, podPrograms, manager>>

-----------------------------------------------------------------------------
(* The cluster: users editing Pods and PCMCs, and the garbage collector *)

UseEvent == budget.events > 0 /\ budget' = [budget EXCEPT !.events = @ - 1]

CreatePod(name) ==
    /\ UseEvent
    /\ ~pods[name].exists
    /\ nextUid <= MaxUid
    /\ \E labels \in PodLabelChoices, phase \in PhaseChoices :
          pods' = [pods EXCEPT ![name] = Pod(name, nextUid, labels, phase)]
    /\ nextUid' = nextUid + 1
    /\ UNCHANGED <<pcmcs, cms, ctrlVars, leaderVars, calls, fn, podPrograms, manager>>

UpdatePod(name) ==
    /\ UseEvent
    /\ pods[name].exists
    /\ \E labels \in PodLabelChoices, phase \in PhaseChoices :
          /\ <<labels, phase>> # <<pods[name].labels, pods[name].phase>>
          /\ pods' = [pods EXCEPT ![name].labels = labels, ![name].phase = phase]
    /\ UNCHANGED <<pcmcs, cms, nextUid, ctrlVars, leaderVars, calls, fn, podPrograms, manager>>

DeletePod(name) ==
    /\ UseEvent
    /\ pods[name].exists
    /\ pods' = [pods EXCEPT ![name] = Absent]
    /\ UNCHANGED <<pcmcs, cms, nextUid, ctrlVars, leaderVars, calls, fn, podPrograms, manager>>

CreatePcmc(name) ==
    /\ UseEvent
    /\ ~pcmcs[name].exists
    /\ nextUid <= MaxUid
    /\ \E sel \in SelectorChoices, incl \in IncludeChoices :
          pcmcs' = [pcmcs EXCEPT ![name] = Pcmc(name, nextUid, 1, 0, sel, incl)]
    /\ nextUid' = nextUid + 1
    /\ UNCHANGED <<pods, cms, ctrlVars, leaderVars, calls, fn, podPrograms, manager>>

\* a change of the spec: the API server increments metadata.generation
UpdatePcmc(name) ==
    /\ UseEvent
    /\ pcmcs[name].exists
    /\ \E sel \in SelectorChoices, incl \in IncludeChoices :
          /\ <<sel, incl>> # <<pcmcs[name].podSelector, pcmcs[name].labelsToInclude>>
          /\ pcmcs' = [pcmcs EXCEPT ![name].podSelector = sel,
                                    ![name].labelsToInclude = incl,
                                    ![name].generation = @ + 1]
    /\ UNCHANGED <<pods, cms, nextUid, ctrlVars, leaderVars, calls, fn, podPrograms, manager>>

DeletePcmc(name) ==
    /\ UseEvent
    /\ pcmcs[name].exists
    /\ pcmcs' = [pcmcs EXCEPT ![name] = Absent]
    /\ UNCHANGED <<pods, cms, nextUid, ctrlVars, leaderVars, calls, fn, podPrograms, manager>>

\* a garbage collector that takes every owner for alive
OwnerNeverCollected(cm) == cm.exists

\* TRUE when some owner of the ConfigMap still exists
OwnerAlive(cm) ==
    \E i \in DOMAIN cm.owners :
        /\ cm.owners[i].name \in PodNames
        /\ pods[cm.owners[i].name].exists
        /\ pods[cm.owners[i].name].uid = cm.owners[i].uid

\* owner-reference garbage collection of the cluster
GarbageCollect(name) ==
    /\ cms[name].exists
    /\ ~OwnerAlive(cms[name])
    /\ cms' = [cms EXCEPT ![name] = Absent]
    /\ workers' = [w \in WorkerIds |-> Invalidate(workers[w], name)]
    /\ UNCHANGED <<pods, pcmcs, nextUid, podCache, pcmcCache, synced, queues,
                   leaderVars, budget, calls, fn, podPrograms, manager>>


-----------------------------------------------------------------------------
(* Leader election (main.go): leaderelection.RunOrDie with a Lease lock *)

LeaseDuration == 15   \* seconds
RenewDeadline == 10   \* seconds
ClockStep == LeaseDuration - RenewDeadline

NoHolder == "none"

\* the state of a process that has just been started or has exited
FreshController ==
    /\ podCache' = [n \in PodNames |-> Absent]
    /\ pcmcCache' = [n \in PcmcNames |-> Absent]
    /\ synced' = [w \in WorkerIds |-> FALSE]
    /\ queues' = [w \in WorkerIds |-> EmptyQueue]
    /\ workers' = [w \in WorkerIds |-> IdleWorker]

\* a candidate that takes the lease whoever holds it
CanAlwaysAcquire(r) == r \in Replicas

\* the candidate takes a lease that is free, expired or its own:
\* OnStartedLeading calls NewController and Run
CanAcquire(r) ==
    \/ lease.holder = NoHolder
    \/ lease.holder = r
    \/ lease.age >= LeaseDuration

AcquireLease(r) ==
    /\ role[r] = "candidate"
    /\ CanAcquire(r)
    /\ lease.holder \notin {NoHolder, r} => lease.transitions < MaxTransitions
    /\ lease' = [holder |-> r, age |-> 0,
                 transitions |-> IF lease.holder \in {NoHolder, r}
                                 THEN lease.transitions ELSE lease.transitions + 1]
    /\ role' = [role EXCEPT ![r] = "leading"]
    /\ FreshController
    /\ UNCHANGED <<apiVars, budget, calls, fn, podPrograms, manager>>

\* the leader renews within the renew deadline
RenewLease(r) ==
    /\ role[r] = "leading"
    /\ lease.holder = r
    /\ lease.age > 0
    /\ lease.age < RenewDeadline
    /\ lease' = [lease EXCEPT !.age = 0]
    /\ UNCHANGED <<apiVars, ctrlVars, role, budget, calls, fn, podPrograms, manager>>

\* time passes; a leader whose renew deadline has passed stops before more does
ClockTick ==
    /\ lease.holder # NoHolder
    /\ lease.age < LeaseDuration
    /\ \A r \in Replicas : role[r] = "leading" => lease.age < RenewDeadline
    /\ lease' = [lease EXCEPT !.age = @ + ClockStep]
    /\ UNCHANGED <<apiVars, ctrlVars, role, budget, calls, fn, podPrograms, manager>>

\* OnStoppedLeading (the renewal failed until the deadline, or the context was
\* cancelled) calls os.Exit(0); a crash ends the process the same way. The
\* process is started again as a candidate and the lease is left as it is.
StopLeading(r) ==
    /\ role[r] = "leading"
    /\ role' = [role EXCEPT ![r] = "candidate"]
    /\ FreshController
    /\ UNCHANGED <<apiVars, lease, budget, calls, fn, podPrograms, manager>>


-----------------------------------------------------------------------------
(* The controller on an existing cluster: replica r1 has just become leader *)

\* the uids of the objects the cluster starts with
InitUid == ("w1" :> 1) @@ ("w2" :> 2) @@ ("p1" :> 3)
FirstFreeUid == Cardinality(DOMAIN InitUid) + 1

\* scenario S1 of the specification with a second Pod that does not match;
\* the second Pod and the PCMC may also be created later
InitPods ==
    {("w1" :> Pod("w1", InitUid["w1"], ("app" :> "web"), "Running")) @@ ("w2" :> w2) :
        w2 \in {Pod("w2", InitUid["w2"], ("app" :> "api"), "Running"), Absent}}

InitPcmcs ==
    {("p1" :> p1) : p1 \in {Pcmc("p1", InitUid["p1"], 1, 0, WebSelector, <<"app">>), Absent}}

NoCalls == [n |-> 0, writes |-> <<>>, before |-> <<>>, invalid |-> <<>>]
NoPrograms == [uid \in {} |-> Absent]
NoReturn == [op |-> "none", uid |-> 0, err |-> FALSE, before |-> Absent, read |-> {}]
NewManager == [ctxDone |-> FALSE, cleaned |-> FALSE, collector |-> "running",
               orphans |-> {}, ret |-> NoReturn]
NoFn == [op |-> "none", arg |-> <<>>, out |-> <<>>]

InitController ==
    /\ podCache = [n \in PodNames |-> Absent]
    /\ pcmcCache = [n \in PcmcNames |-> Absent]
    /\ synced = [w \in WorkerIds |-> FALSE]
    /\ queues = [w \in WorkerIds |-> EmptyQueue]
    /\ workers = [w \in WorkerIds |-> IdleWorker]

Init ==
    /\ pods \in InitPods
    /\ pcmcs \in InitPcmcs
    /\ cms = [n \in CMNames |-> Absent]
    /\ nextUid = FirstFreeUid
    /\ InitController
    /\ role = [r \in Replicas |-> IF r = "r1" THEN "leading" ELSE "candidate"]
    /\ lease = [holder |-> "r1", age |-> 0, transitions |-> 0]
    /\ budget = [events |-> MaxEvents, failures |-> MaxApiFailures]
    /\ calls = NoCalls
    /\ fn = NoFn
    /\ podPrograms = NoPrograms
    /\ manager = NewManager

EnvNext ==
    \/ \E n \in PodNames : CreatePod(n) \/ UpdatePod(n) \/ DeletePod(n)
    \/ \E n \in PcmcNames : CreatePcmc(n) \/ UpdatePcmc(n) \/ DeletePcmc(n)
    \/ \E n \in CMNames : GarbageCollect(n)

InformerNext ==
    \/ PodInformerList
    \/ PcmcInformerList
    \/ \E n \in PodNames : PodInformerEvent(n)
    \/ \E n \in PcmcNames : PcmcInformerEvent(n)

WorkerNext ==
    \/ PodDequeue
    \/ PcmcDequeue
    \/ PcmcUpdateStatus
    \/ \E w \in WorkerIds :
          SyncDelete(w) \/ SyncGet(w) \/ SyncCreate(w) \/ SyncUpdate(w) \/ DelayedAdd(w)

ControllerNext == InformerNext \/ WorkerNext

Next == EnvNext \/ ControllerNext

Spec == Init /\ [][Next]_vars

\* a leader that starts on a cluster where an earlier leader has left the
\* ConfigMap of w1 behind and the PCMC has been edited since
StaleCM ==
    DesiredCM(Pod("w1", InitUid["w1"], ("app" :> "web"), "Running"),
              Pcmc("p1", InitUid["p1"], 1, 1, WebSelector, <<>>))

InitDeletion ==
    /\ pods = ("w1" :> Pod("w1", InitUid["w1"], ("app" :> "web"), "Running"))
              @@ ("w2" :> Absent)
    /\ pcmcs = ("p1" :> Pcmc("p1", InitUid["p1"], 2, 1, WebSelector, <<"app">>))
    /\ cms = [n \in CMNames |->
                IF n = generateConfigMapName("w1", "p1") THEN StaleCM ELSE Absent]
    /\ nextUid = FirstFreeUid
    /\ InitController
    /\ role = [r \in Replicas |-> IF r = "r1" THEN "leading" ELSE "candidate"]
    /\ lease = [holder |-> "r1", age |-> 0, transitions |-> 0]
    /\ budget = [events |-> MaxEvents, failures |-> MaxApiFailures]
    /\ calls = NoCalls
    /\ fn = NoFn
    /\ podPrograms = NoPrograms
    /\ manager = NewManager

\* the Pods and the PCMCs of the cluster are deleted
DeletionNext ==
    \/ \E n \in PodNames : DeletePod(n)
    \/ \E n \in PcmcNames : DeletePcmc(n)
    \/ \E n \in CMNames : GarbageCollect(n)
    \/ ControllerNext

-----------------------------------------------------------------------------
(* A PCMC that projects a label whose key is not a ConfigMap data key: Pod   *)
(* w1 carries the label, Pod w2 does not; no API call fails                  *)

SlashLabel == "app/name"

\* the ConfigMap of w2 from the time the PCMC included no label and w2 ran
\* on another node
MovedCM ==
    [DesiredCM(Pod("w2", InitUid["w2"], ("app" :> "web"), "Running"),
               Pcmc("p1", InitUid["p1"], 1, 1, NoSelector, <<>>))
        EXCEPT !.data["nodeName"] = "node-b"]

InitInvalid ==
    /\ pods = ("w1" :> Pod("w1", InitUid["w1"], (SlashLabel :> "web"), "Running"))
              @@ ("w2" :> Pod("w2", InitUid["w2"], ("app" :> "web"), "Running"))
    /\ pcmcs = ("p1" :> Pcmc("p1", InitUid["p1"], 1, 0, NoSelector, <<SlashLabel>>))
    /\ \E cm \in {Absent, MovedCM} :
          cms = [n \in CMNames |->
                    IF n = generateConfigMapName("w2", "p1") THEN cm ELSE Absent]
    /\ nextUid = FirstFreeUid
    /\ InitController
    /\ role = [r \in Replicas |-> IF r = "r1" THEN "leading" ELSE "candidate"]
    /\ lease = [holder |-> "r1", age |-> 0, transitions |-> 0]
    /\ budget = [events |-> MaxEvents, failures |-> 0]
    /\ calls = NoCalls
    /\ fn = NoFn
    /\ podPrograms = NoPrograms
    /\ manager = NewManager

SpecInvalid == InitInvalid /\ [][DeletionNext]_vars

-----------------------------------------------------------------------------
(* Pods in every phase of the Pod lifecycle: Pod w1 is in any of the five    *)
(* phases, Pod w2 runs; the PCMC selects both; no API call fails             *)

\* v1.PodPhase
PodPhases == {"Pending", "Running", "Succeeded", "Failed", "Unknown"}

InitPhase ==
    /\ \E phase \in PodPhases :
          pods = ("w1" :> Pod("w1", InitUid["w1"], ("app" :> "web"), phase))
                 @@ ("w2" :> Pod("w2", InitUid["w2"], ("app" :> "web"), "Running"))
    /\ pcmcs = ("p1" :> Pcmc("p1", InitUid["p1"], 1, 0, NoSelector, <<"app">>))
    /\ cms = [n \in CMNames |->
                IF n = generateConfigMapName("w2", "p1") THEN MovedCM ELSE Absent]
    /\ nextUid = FirstFreeUid
    /\ InitController
    /\ role = [r \in Replicas |-> IF r = "r1" THEN "leading" ELSE "candidate"]
    /\ lease = [holder |-> "r1", age |-> 0, transitions |-> 0]
    /\ budget = [events |-> MaxEvents, failures |-> 0]
    /\ calls = NoCalls
    /\ fn = NoFn
    /\ podPrograms = NoPrograms
    /\ manager = NewManager

SpecPhase == InitPhase /\ [][DeletionNext]_vars

-----------------------------------------------------------------------------
(* syncConfigMapForPod called again and again on one Pod and one PCMC, with  *)
(* no other writer and no API failure                                        *)

SyncPod == "w1"
SyncPcmc == "p1"
UserLabel == "team"

SyncPodChoices ==
    {Pod(SyncPod, InitUid[SyncPod], labels, "Running") :
        labels \in PodLabelChoices \cup {(SlashLabel :> "web")}}

SyncPcmcChoices ==
    {Pcmc(SyncPcmc, InitUid[SyncPcmc], 1, 1, sel, incl) :
        sel \in SelectorChoices, incl \in IncludeChoices \cup {<<SlashLabel>>}}

\* the ConfigMap found by the first call: none, one written for some state of
\* the Pod (or of an earlier Pod of the same name) and of the PCMC, or one that
\* a user has labelled since; the API server holds no ConfigMap with a data
\* key that is not a ConfigMap data key
SyncLiveChoices ==
    LET projected == {DesiredCM([pod EXCEPT !.uid = uid], pcmc) :
                         pod \in SyncPodChoices, pcmc \in SyncPcmcChoices,
                         uid \in {InitUid[SyncPod], InitUid["w2"]}}
        written == {cm \in projected : ValidateConfigMapData(cm.data)}
    IN {Absent} \cup written
       \cup {[cm EXCEPT !.labels = @ @@ (UserLabel :> "x")] : cm \in written}

InitSync ==
    /\ \E pod \in SyncPodChoices : pods = (SyncPod :> pod) @@ ("w2" :> Absent)
    /\ \E pcmc \in SyncPcmcChoices : pcmcs = (SyncPcmc :> pcmc)
    /\ \E cm \in SyncLiveChoices :
          cms = [n \in CMNames |->
                    IF n = generateConfigMapName(SyncPod, SyncPcmc) THEN cm ELSE Absent]
    /\ nextUid = FirstFreeUid
    /\ InitController
    /\ role = [r \in Replicas |-> IF r = "r1" THEN "leading" ELSE "candidate"]
    /\ lease = [holder |-> "r1", age |-> 0, transitions |-> 0]
    /\ budget = [events |-> 0, failures |-> 0]
    /\ calls = NoCalls
    /\ fn = NoFn
    /\ podPrograms = NoPrograms
    /\ manager = NewManager

\* one call of syncConfigMapForPod(pod, pcmc), up to its first API call
SyncCall ==
    /\ workers["pod"].pc = "idle"
    /\ calls.n < MaxSyncCalls
    /\ LET r == BeginPair("pod",
                          [IdleWorker EXCEPT !.key = MetaNamespaceKey(SyncPod),
                                             !.mode = "sync",
                                             !.pod = pods[SyncPod],
                                             !.todo = {pcmcs[SyncPcmc]}],
                          pcmcs[SyncPcmc])
       IN /\ workers' = [workers EXCEPT !["pod"] = IF r.pc = "next" THEN IdleWorker ELSE r]
          /\ calls' = [n |-> calls.n + 1, writes |-> Append(calls.writes, 0),
                       before |-> Append(calls.before,
                                         cms[generateConfigMapName(SyncPod, SyncPcmc)]),
                       invalid |-> Append(calls.invalid, r.pc = "next" /\ r.lastErr # NoError)]
    /\ UNCHANGED <<apiVars, podCache, pcmcCache, synced, queues, leaderVars, budget, fn, podPrograms, manager>>

SyncNext ==
    \/ SyncCall
    \/ SyncDelete("pod")
    \/ SyncGet("pod")
    \/ SyncCreate("pod")
    \/ SyncUpdate("pod")

SpecSync == InitSync /\ [][SyncNext]_vars

-----------------------------------------------------------------------------
(* The pure functions applied to every input of a bounded set; the cluster   *)
(* and the controller stay as they are                                       *)

MaxTail == 3           \* characters after the optional long run of an input
MaxApplications == 2   \* applications of sanitize, each to the result before

RECURSIVE Strings(_, _)
Strings(alphabet, n) ==
    IF n = 0 THEN {""}
    ELSE LET shorter == Strings(alphabet, n - 1)
         IN shorter \cup {s \o c : s \in shorter, c \in alphabet}

RECURSIVE Repeat(_, _)
Repeat(c, n) ==
    IF n = 0 THEN ""
    ELSE LET half == Repeat(c, n \div 2)
         IN IF n % 2 = 0 THEN half \o half ELSE half \o half \o c

\* inputs of SanitizeConfigMapName: short strings with upper case, digits,
\* hyphens and invalid characters, and the same after a run of letters that
\* brings them to the limit of MaxConfigMapNameLength
SanitizeAlphabet == {"a", "B", "1", "-", "."}
SanitizeInputs ==
    {run \o tail : run \in {"", Repeat("a", MaxConfigMapNameLength - 2)},
                   tail \in Strings(SanitizeAlphabet, MaxTail)}

InitIdle ==
    /\ pods = [n \in PodNames |-> Absent]
    /\ pcmcs = [n \in PcmcNames |-> Absent]
    /\ cms = [n \in CMNames |-> Absent]
    /\ nextUid = FirstFreeUid
    /\ InitController
    /\ role = [r \in Replicas |-> "candidate"]
    /\ lease = [holder |-> NoHolder, age |-> 0, transitions |-> 0]
    /\ budget = [events |-> 0, failures |-> 0]
    /\ calls = NoCalls
    /\ podPrograms = NoPrograms
    /\ manager = NewManager

InitSanitize ==
    /\ InitIdle
    /\ \E name \in SanitizeInputs : fn = [op |-> "sanitize", arg |-> <<name>>, out |-> <<>>]

ApplySanitize ==
    /\ fn.op = "sanitize"
    /\ Len(fn.out) < MaxApplications
    /\ fn' = [fn EXCEPT !.out = Append(@, SanitizeConfigMapName(
                                IF fn.out = <<>> THEN fn.arg[1] ELSE fn.out[Len(fn.out)]))]
    /\ UNCHANGED <<apiVars, ctrlVars, leaderVars, budget, calls, podPrograms, manager>>

SpecSanitize == InitSanitize /\ [][ApplySanitize]_vars

MaxNameLen == 3        \* characters of a Pod name and of a PCMC name

\* the names the API server admits for a Pod and for a PCMC (DNS subdomains:
\* lower case letters, digits, '-' and '.', a letter or a digit at both ends
\* and around every '.')
NameAlphabet == {"w", "1", "-", "."}
ObjectNames ==
    {s \in Strings(NameAlphabet, MaxNameLen) :
        /\ s # ""
        /\ CharAt(s, 1) \notin {"-", "."} /\ CharAt(s, Len(s)) \notin {"-", "."}
        /\ \A i \in 2..(Len(s) - 1) :
              CharAt(s, i) = "." =>
                  CharAt(s, i - 1) \notin {"-", "."} /\ CharAt(s, i + 1) \notin {"-", "."}}

InitNames ==
    /\ InitIdle
    /\ \E podName \in ObjectNames, pcmcName \in ObjectNames :
          fn = [op |-> "name", arg |-> <<podName, pcmcName>>, out |-> <<>>]

\* syncConfigMapForPod on a Pod and a PCMC of these names, up to its first
\* API call: the name it is to use and whether it returns a validation error
ApplyName ==
    /\ fn.op = "name"
    /\ fn.out = <<>>
    /\ LET pod == Pod(fn.arg[1], InitUid["w1"], ("app" :> "web"), "Running")
           pcmc == Pcmc(fn.arg[2], InitUid["p1"], 1, 1, NoSelector, <<"app">>)
           r == BeginPair("pod", [IdleWorker EXCEPT !.mode = "sync", !.pod = pod,
                                                    !.todo = {pcmc}], pcmc)
       IN fn' = [fn EXCEPT !.out = <<[name |-> CurName(r),
                                      rejected |-> r.pc = "next" /\ r.lastErr # NoError]>>]
    /\ UNCHANGED <<apiVars, ctrlVars, leaderVars, budget, calls, podPrograms, manager>>

SpecNames == InitNames /\ [][ApplyName]_vars

MaxSegments == 2       \* parts of an object name that "-from-" joins

\* Pod and PCMC names made of short parts joined by "-from-"; the API server
\* admits every one of them
RECURSIVE JoinedNames(_)
JoinedNames(n) ==
    IF n = 1 THEN {"a", "b"}
    ELSE JoinedNames(n - 1)
         \cup {s \o "-from-" \o t : s \in JoinedNames(n - 1), t \in {"a", "b"}}

InitPairs ==
    /\ InitIdle
    /\ \E pod1 \in JoinedNames(MaxSegments), pcmc1 \in JoinedNames(MaxSegments),
          pod2 \in JoinedNames(MaxSegments), pcmc2 \in JoinedNames(MaxSegments) :
          fn = [op |-> "pairs", arg |-> <<pod1, pcmc1, pod2, pcmc2>>, out |-> <<>>]

\* syncConfigMapForPod on two pairs of one namespace, each up to its first
\* API call: the ConfigMap name each is to use
ApplyPairs ==
    /\ fn.op = "pairs"
    /\ fn.out = <<>>
    /\ LET first(i) ==
               LET pod == Pod(fn.arg[i], InitUid["w1"], ("app" :> "web"), "Running")
                   pcmc == Pcmc(fn.arg[i + 1], InitUid["p1"], 1, 1, NoSelector, <<"app">>)
                   r == BeginPair("pod", [IdleWorker EXCEPT !.mode = "sync", !.pod = pod,
                                                            !.todo = {pcmc}], pcmc)
               IN [name |-> CurName(r), pc |-> r.pc]
       IN fn' = [fn EXCEPT !.out = <<first(1), first(3)>>]
    /\ UNCHANGED <<apiVars, ctrlVars, leaderVars, budget, calls, podPrograms, manager>>

SpecPairs == InitPairs /\ [][ApplyPairs]_vars

MaxKeys == 2           \* keys listed in labelsToInclude and in annotationsToInclude

RECURSIVE Seqs(_, _)
Seqs(S, n) ==
    IF n = 0 THEN {<<>>}
    ELSE LET shorter == Seqs(S, n - 1)
         IN shorter \cup {Append(q, x) : q \in shorter, x \in S}

\* Pods with none, one or both of two labels and with or without an
\* annotation of the name of a label; PCMCs that list keys in any order, more
\* than once, and keys the Pod does not carry
ProjectPods ==
    {[Pod("w1", InitUid["w1"], labels, "Running") EXCEPT !.annotations = annotations] :
        labels \in {EmptyMap, ("app" :> "web"), ("tier" :> "db"),
                    ("app" :> "web") @@ ("tier" :> "db")},
        annotations \in {EmptyMap, ("app" :> "shop")}}

ProjectPcmcs ==
    {[Pcmc("p1", InitUid["p1"], 1, 1, NoSelector, labelKeys)
         EXCEPT !.annotationsToInclude = annotationKeys] :
        labelKeys \in Seqs({"app", "tier"}, MaxKeys),
        annotationKeys \in Seqs({"app", "note"}, MaxKeys)}

InitProject ==
    /\ InitIdle
    /\ \E pod \in ProjectPods, pcmc \in ProjectPcmcs :
          fn = [op |-> "project", arg |-> <<pod, pcmc>>, out |-> <<>>]

ApplyProject ==
    /\ fn.op = "project"
    /\ fn.out = <<>>
    /\ fn' = [fn EXCEPT !.out = <<ConfigData(fn.arg[1], fn.arg[2])>>]
    /\ UNCHANGED <<apiVars, ctrlVars, leaderVars, budget, calls, podPrograms, manager>>

SpecProject == InitProject /\ [][ApplyProject]_vars

-----------------------------------------------------------------------------
(* The L4 firewall of one Pod: the rule table setupL4Firewall writes for an  *)
(* L4FirewallConfig, and the verdict of the ingress program on one packet    *)

MaxPorts == 2
MAX_RULES == 256
FirewallPorts == {80, 443}
PacketPorts == {80, 443, 8080}
\* IPPROTO_TCP and IPPROTO_UDP
PacketProtocols == {6, 17}

L4FirewallConfigs ==
    [allowedPorts : Seqs(FirewallPorts, MaxPorts), blockedPorts : Seqs(FirewallPorts, MaxPorts),
     defaultAction : {"allow", "block"}]

\* the firewall_rules map after setupL4Firewall: the allowed ports and then
\* the blocked ports, at consecutive indexes, each as a TCP rule with its
\* port cut to 16 bits
FirewallRules(config) ==
    [i \in 0 .. Len(config.allowedPorts) + Len(config.blockedPorts) - 1 |->
        IF i < Len(config.allowedPorts)
        THEN [port |-> config.allowedPorts[i + 1] % 65536, protocol |-> 6, action |-> 0]
        ELSE [port |-> config.blockedPorts[i + 1 - Len(config.allowedPorts)] % 65536,
              protocol |-> 6, action |-> 1]]

\* check_firewall_rules: the action of the rule of lowest index with the
\* port and the protocol of the packet, 0 when there is none
check_firewall_rules(rules, port, protocol) ==
    LET matching == {i \in DOMAIN rules \cap (0 .. MAX_RULES - 1) :
                        rules[i].port = port /\ rules[i].protocol = protocol}
    IN IF matching = {} THEN 0
       ELSE rules[CHOOSE i \in matching : \A k \in matching : i <= k].action

\* l4_firewall_ingress on a TCP or UDP packet of an enabled interface
l4_firewall_ingress(rules, packet) ==
    IF check_firewall_rules(rules, packet.port, packet.protocol) = 1
    THEN "TC_ACT_SHOT" ELSE "TC_ACT_OK"

InitFirewall ==
    /\ InitIdle
    /\ \E config \in L4FirewallConfigs, port \in PacketPorts, protocol \in PacketProtocols :
          fn = [op |-> "firewall",
                arg |-> <<config, [port |-> port, protocol |-> protocol]>>, out |-> <<>>]

ApplyFirewall ==
    /\ fn.op = "firewall"
    /\ fn.out = <<>>
    /\ fn' = [fn EXCEPT !.out = <<l4_firewall_ingress(FirewallRules(fn.arg[1]), fn.arg[2])>>]
    /\ UNCHANGED <<apiVars, ctrlVars, leaderVars, budget, calls, podPrograms, manager>>

SpecFirewall == InitFirewall /\ [][ApplyFirewall]_vars

-----------------------------------------------------------------------------
(* The eBPF Manager: AttachToPod and DetachFromPod called for two Pods with  *)
(* every EBPFConfig, in any order, beside the metrics collector and the      *)
(* cleanup Start runs when its context is cancelled; loading a collection   *)
(* and writing a map may fail                                                *)

\* v1alpha1.EBPFConfig: is syscall monitoring enabled, is the L4 firewall
EBPFConfig(syscall, firewall) == [syscallMonitoring |-> syscall, l4Firewall |-> firewall]
EBPFConfigs == {EBPFConfig(syscall, firewall) : syscall \in BOOLEAN, firewall \in BOOLEAN}

ManagerUids == {InitUid["w1"], InitUid["w2"]}

\* a handle field of a PodProgram is nil, or holds objects or a link that
\* are open or have been closed
HandleFields == {"SyscallCounter", "SyscallLink", "L4Firewall", "L4FirewallLink"}
LinkFields == {"SyscallLink", "L4FirewallLink"}
OpenHandles(program) == {h \in HandleFields : program[h] = "open"}

\* the PodProgram AttachToPod builds before any setup
NewPodProgram(uid, config) ==
    [PodUID |-> uid, Config |-> config,
     SyscallCounter |-> "nil", SyscallLink |-> "nil",
     L4Firewall |-> "nil", L4FirewallLink |-> "nil"]

\* attaching links that succeed
AttachTracepointSucceeds(objs) == [link |-> "open", err |-> FALSE]
AttachTCSucceeds(ifindex) == [link |-> "open", err |-> FALSE]

\* SyscallCounterObjects.AttachTracepoint and L4FirewallObjects.AttachTC
\* return no link and an error, always
AttachTracepoint(objs) == [link |-> "nil", err |-> TRUE]
AttachTC(ifindex) == [link |-> "nil", err |-> TRUE]

\* setupSyscallMonitoring: the program after it, and whether it failed; the
\* objects are closed when the tracepoint does not attach
setupSyscallMonitoring(program, loads) ==
    IF ~loads THEN [program |-> program, err |-> TRUE]
    ELSE LET loaded == [program EXCEPT !.SyscallCounter = "open"]
             attached == AttachTracepoint(loaded.SyscallCounter)
         IN IF attached.err
            THEN [program |-> [loaded EXCEPT !.SyscallCounter = "closed"], err |-> TRUE]
            ELSE [program |-> [loaded EXCEPT !.SyscallLink = attached.link], err |-> FALSE]

\* setupL4Firewall: a rule that cannot be written is logged; when the
\* interface cannot be enabled it returns with the objects open, and it
\* closes them when the TC program does not attach
setupL4Firewall(program, loads, enables) ==
    IF ~loads THEN [program |-> program, err |-> TRUE]
    ELSE LET loaded == [program EXCEPT !.L4Firewall = "open"]
             attached == AttachTC(2)
         IN IF ~enables THEN [program |-> loaded, err |-> TRUE]
            ELSE IF attached.err
            THEN [program |-> [loaded EXCEPT !.L4Firewall = "closed"], err |-> TRUE]
            ELSE [program |-> [loaded EXCEPT !.L4FirewallLink = attached.link], err |-> FALSE]

\* the setups of AttachToPod for a Pod without a program: the first that
\* fails ends the call
SetupPrograms(uid, config, env) ==
    LET program == NewPodProgram(uid, config)
        syscall == IF config.syscallMonitoring
                   THEN setupSyscallMonitoring(program, env.loadSyscall)
                   ELSE [program |-> program, err |-> FALSE]
    IN IF syscall.err \/ ~config.l4Firewall THEN syscall
       ELSE setupL4Firewall(syscall.program, env.loadFirewall, env.enable)

\* updatePodProgram: the configuration is replaced (no container PID is found
\* by getContainerPids, so none is added to the syscall counter)
updatePodProgram(program, config) == [program EXCEPT !.Config = config]

\* what the last call was and returned; for the update of a program, the
\* configuration it had before
ManagerReturned(op, uid, err) == [NoReturn EXCEPT !.op = op, !.uid = uid, !.err = err]

\* what the environment decides in one call: which collections load and
\* whether the interface entry can be written
SetupEnvs == [loadSyscall : BOOLEAN, loadFirewall : BOOLEAN, enable : BOOLEAN]

AttachToPod(uid, config) ==
    /\ \E env \in SetupEnvs :
          IF uid \in DOMAIN podPrograms
          THEN /\ podPrograms' = [podPrograms EXCEPT ![uid] = updatePodProgram(@, config)]
               /\ manager' = [manager EXCEPT !.ret =
                     [ManagerReturned("AttachToPod", uid, FALSE)
                         EXCEPT !.before = podPrograms[uid].Config]]
          ELSE LET setup == SetupPrograms(uid, config, env)
               IN /\ podPrograms' = IF setup.err THEN podPrograms
                                    ELSE (uid :> setup.program) @@ podPrograms
                  /\ manager' = [manager EXCEPT
                        !.orphans = IF setup.err
                                    THEN @ \cup {<<uid, h>> : h \in OpenHandles(setup.program)}
                                    ELSE @,
                        !.ret = ManagerReturned("AttachToPod", uid, setup.err)]
    /\ UNCHANGED <<apiVars, ctrlVars, leaderVars, budget, calls, fn>>

\* cleanupPodProgram calls Close on every link and every objects value the
\* program holds, closed before or not; the Close of a link may fail, the
\* Close of objects returns nil
cleanupPodProgram(program, failed) ==
    [program |-> [f \in DOMAIN program |->
                     IF f \in HandleFields /\ program[f] # "nil" /\ f \notin failed
                     THEN "closed" ELSE program[f]],
     err |-> failed # {}]

\* the entry is deleted when no Close has failed
DetachFromPod(uid) ==
    /\ IF uid \notin DOMAIN podPrograms
       THEN UNCHANGED podPrograms
       ELSE \E failed \in SUBSET (OpenHandles(podPrograms[uid]) \cap LinkFields) :
               LET cleanup == cleanupPodProgram(podPrograms[uid], failed)
               IN podPrograms' =
                     IF cleanup.err THEN [podPrograms EXCEPT ![uid] = cleanup.program]
                     ELSE [u \in DOMAIN podPrograms \ {uid} |-> podPrograms[u]]
    /\ manager' = [manager EXCEPT
          !.ret = ManagerReturned("DetachFromPod", uid, uid \in DOMAIN podPrograms')]
    /\ UNCHANGED <<apiVars, ctrlVars, leaderVars, budget, calls, fn>>

\* the context given to Start is cancelled
CancelManager ==
    /\ ~manager.ctxDone
    /\ manager' = [manager EXCEPT !.ctxDone = TRUE]
    /\ UNCHANGED <<apiVars, ctrlVars, leaderVars, budget, calls, fn, podPrograms>>

\* Start after <-ctx.Done(): every program of the map is cleaned up, under
\* the lock; the map keeps its entries
StartCleanup ==
    /\ manager.ctxDone
    /\ ~manager.cleaned
    /\ \E failed \in [DOMAIN podPrograms -> SUBSET LinkFields] :
          /\ \A uid \in DOMAIN podPrograms : failed[uid] \subseteq OpenHandles(podPrograms[uid])
          /\ podPrograms' = [uid \in DOMAIN podPrograms |->
                                cleanupPodProgram(podPrograms[uid], failed[uid]).program]
    /\ manager' = [manager EXCEPT !.cleaned = TRUE, !.ret = ManagerReturned("Start", 0, FALSE)]
    /\ UNCHANGED <<apiVars, ctrlVars, leaderVars, budget, calls, fn>>

\* collectMetrics, on a tick: under the read lock, the syscall counts and
\* then the firewall statistics of every program are read; a read that fails
\* ends the collection for that program
collectMetrics ==
    /\ manager.collector = "running"
    /\ manager' = [manager EXCEPT !.ret =
          [ManagerReturned("collectMetrics", 0, FALSE) EXCEPT !.read =
                    {<<uid, "SyscallCounter", podPrograms[uid].SyscallCounter>> :
                        uid \in {u \in DOMAIN podPrograms :
                                    podPrograms[u].SyscallCounter # "nil"}}
                    \cup {<<uid, "L4Firewall", podPrograms[uid].L4Firewall>> :
                        uid \in {u \in DOMAIN podPrograms :
                                    /\ podPrograms[u].L4Firewall # "nil"
                                    /\ podPrograms[u].SyscallCounter # "closed"}}]]
    /\ UNCHANGED <<apiVars, ctrlVars, leaderVars, budget, calls, fn, podPrograms>>

\* metricsCollector takes the ctx.Done() case of its select; while a tick is
\* ready as well it may take the tick first
metricsCollectorReturns ==
    /\ manager.ctxDone
    /\ manager.collector = "running"
    /\ manager' = [manager EXCEPT !.collector = "exited"]
    /\ UNCHANGED <<apiVars, ctrlVars, leaderVars, budget, calls, fn, podPrograms>>

InitManager ==
    /\ InitIdle
    /\ fn = NoFn

ManagerNext ==
    \/ \E uid \in ManagerUids, config \in EBPFConfigs : AttachToPod(uid, config)
    \/ \E uid \in ManagerUids : DetachFromPod(uid)
    \/ CancelManager
    \/ StartCleanup
    \/ collectMetrics
    \/ metricsCollectorReturns

SpecManager == InitManager /\ [][ManagerNext]_vars

-----------------------------------------------------------------------------
(* A PCMC with an ebpfConfig in a namespace of two running Pods, one of them *)
(* with an outdated ConfigMap: the leader reconciles it; no API call fails   *)

InitKernel ==
    /\ pods = ("w1" :> Pod("w1", InitUid["w1"], ("app" :> "web"), "Running"))
              @@ ("w2" :> Pod("w2", InitUid["w2"], ("app" :> "web"), "Running"))
    /\ \E config \in EBPFConfigs :
          pcmcs = ("p1" :> [Pcmc("p1", InitUid["p1"], 1, 0, NoSelector, <<"app">>)
                              EXCEPT !.ebpfConfig = config])
    /\ cms = [n \in CMNames |->
                IF n = generateConfigMapName("w2", "p1") THEN MovedCM ELSE Absent]
    /\ nextUid = FirstFreeUid
    /\ InitController
    /\ role = [r \in Replicas |-> IF r = "r1" THEN "leading" ELSE "candidate"]
    /\ lease = [holder |-> "r1", age |-> 0, transitions |-> 0]
    /\ budget = [events |-> MaxEvents, failures |-> 0]
    /\ calls = NoCalls
    /\ fn = NoFn
    /\ podPrograms = NoPrograms
    /\ manager = NewManager

SpecKernel == InitKernel /\ [][DeletionNext]_vars

-----------------------------------------------------------------------------
(* Two replicas compete for the lease over a cluster that earlier leaders   *)
(* have left in any state; leaders stop at any point of their reconciles    *)

\* a ConfigMap left for w2 from the time the PCMC had no selector
OrphanCM ==
    DesiredCM(Pod("w2", InitUid["w2"], ("app" :> "api"), "Running"),
              Pcmc("p1", InitUid["p1"], 1, 1, NoSelector, <<>>))

InitLeader ==
    /\ pods = ("w1" :> Pod("w1", InitUid["w1"], ("app" :> "web"), "Running"))
              @@ ("w2" :> Pod("w2", InitUid["w2"], ("app" :> "api"), "Running"))
    /\ pcmcs = ("p1" :> Pcmc("p1", InitUid["p1"], 2, 1, WebSelector, <<"app">>))
    /\ \E cm1 \in {Absent, StaleCM}, cm2 \in {Absent, OrphanCM} :
          cms = (generateConfigMapName("w1", "p1") :> cm1)
                @@ (generateConfigMapName("w2", "p1") :> cm2)
    /\ nextUid = FirstFreeUid
    /\ InitController
    /\ role = [r \in Replicas |-> "candidate"]
    /\ lease = [holder |-> NoHolder, age |-> 0, transitions |-> 0]
    /\ budget = [events |-> MaxEvents, failures |-> 0]
    /\ calls = NoCalls
    /\ fn = NoFn
    /\ podPrograms = NoPrograms
    /\ manager = NewManager

LeaderNext ==
    \/ \E r \in Replicas : AcquireLease(r) \/ RenewLease(r) \/ StopLeading(r)
    \/ ClockTick
    \/ \E n \in PodNames : DeletePod(n)
    \/ \E n \in CMNames : GarbageCollect(n)
    \/ ControllerNext

SpecLeader == InitLeader /\ [][LeaderNext]_vars

\* the garbage collector of the cluster and the goroutines of the leader
\* (informers, workers, queue timers) are scheduled again and again
Fairness ==
    /\ WF_vars(\E n \in CMNames : GarbageCollect(n))
    /\ WF_vars(InformerNext)
    /\ WF_vars(WorkerNext)

FairSpec == InitDeletion /\ [][DeletionNext]_vars /\ Fairness

-----------------------------------------------------------------------------
(* An API server that stops answering: a call of a worker never returns.     *)
(* processNextPodWorkItem / processNextPcmcWorkItem hand the context of Run  *)
(* to the reconcile, so the call waits for the response or for the end of    *)
(* the process                                                               *)

ApiCallPcs == {"status", "delete", "get", "create", "update"}

\* the request of worker w is sent and no response ever arrives
ApiCallHangs(w) ==
    /\ WorkersStarted
    /\ workers[w].pc \in ApiCallPcs
    /\ UseFailure
    /\ workers' = [workers EXCEPT ![w].pc = "hung"]
    /\ UNCHANGED <<apiVars, podCache, pcmcCache, synced, queues, leaderVars, calls, fn,
                   podPrograms, manager>>

HangNext ==
    \/ DeletionNext
    \/ \E w \in WorkerIds : ApiCallHangs(w)

FairSpecHang == InitDeletion /\ [][HangNext]_vars /\ Fairness

-----------------------------------------------------------------------------
(* Resync: the Pod informer is built with a resync period of ten minutes,    *)
(* the PCMC informer with a period of 0 (no resync). Pod w1 is selected by   *)
(* the PCMC, Pod w2 is not; nobody edits a Pod or the PCMC, and a user       *)
(* deletes ConfigMaps                                                        *)

\* a ConfigMap is deleted by a user of the cluster; the controller has no
\* ConfigMap informer
DeleteConfigMap(name) ==
    /\ UseEvent
    /\ cms[name].exists
    /\ cms' = [cms EXCEPT ![name] = Absent]
    /\ workers' = [w \in WorkerIds |-> Invalidate(workers[w], name)]
    /\ UNCHANGED <<pods, pcmcs, nextUid, podCache, pcmcCache, synced, queues,
                   leaderVars, calls, fn, podPrograms, manager>>

\* the periodic resync of the Pod informer: the stored object is handed to
\* UpdateFunc as the old and as the new object
PodResync(name) ==
    /\ Leading
    /\ synced["pod"]
    /\ podCache[name].exists
    /\ queues' = [queues EXCEPT !["pod"] =
                     PodUpdateFunc(@, podCache[name], podCache[name])]
    /\ UNCHANGED <<apiVars, podCache, pcmcCache, synced, workers, leaderVars, budget,
                   calls, fn, podPrograms, manager>>

InitResync ==
    /\ pods = ("w1" :> Pod("w1", InitUid["w1"], ("app" :> "web"), "Running"))
              @@ ("w2" :> Pod("w2", InitUid["w2"], ("app" :> "db"), "Running"))
    /\ pcmcs = ("p1" :> Pcmc("p1", InitUid["p1"], 2, 1, WebSelector, <<"app">>))
    /\ \E cm \in {Absent, StaleCM} :
          cms = [n \in CMNames |->
                    IF n = generateConfigMapName("w1", "p1") THEN cm
                    ELSE IF n = generateConfigMapName("w2", "p1") THEN MovedCM
                    ELSE Absent]
    /\ nextUid = FirstFreeUid
    /\ InitController
    /\ role = [r \in Replicas |-> IF r = "r1" THEN "leading" ELSE "candidate"]
    /\ lease = [holder |-> "r1", age |-> 0, transitions |-> 0]
    /\ budget = [events |-> MaxEvents, failures |-> MaxApiFailures]
    /\ calls = NoCalls
    /\ fn = NoFn
    /\ podPrograms = NoPrograms
    /\ manager = NewManager

ResyncNext ==
    \/ \E n \in CMNames : DeleteConfigMap(n)
    \/ \E n \in PodNames : PodResync(n)
    \/ PodInformerList
    \/ PcmcInformerList
    \/ \E n \in PcmcNames : PcmcInformerEvent(n)
    \/ WorkerNext

\* the goroutines of the leader and the resync timer are scheduled again and
\* again
FairSpecResync ==
    /\ InitResync
    /\ [][ResyncNext]_vars
    /\ WF_vars(PodInformerList)
    /\ WF_vars(PcmcInformerList)
    /\ WF_vars(\E n \in PcmcNames : PcmcInformerEvent(n))
    /\ WF_vars(\E n \in PodNames : PodResync(n))
    /\ WF_vars(WorkerNext)

-----------------------------------------------------------------------------
(* Conflicts: while the two workers sync the ConfigMap of Pod w1, other      *)
(* clients of the cluster label the ConfigMap or edit the Pod, up to         *)
(* MaxWrites times; no API call fails otherwise                              *)

MaxWrites == 5   \* writes of the ConfigMap and of the Pod by other clients

\* another client updates the ConfigMap (it sets a label of its own): the
\* resourceVersion changes
TouchConfigMap(name) ==
    /\ UseEvent
    /\ cms[name].exists
    /\ \E v \in {"x", "y"} :
          /\ UserLabel \in DOMAIN cms[name].labels => cms[name].labels[UserLabel] # v
          /\ cms' = [cms EXCEPT ![name].labels =
                        [k \in DOMAIN @ \cup {UserLabel} |->
                            IF k = UserLabel THEN v ELSE @[k]]]
    /\ workers' = [w \in WorkerIds |-> Invalidate(workers[w], name)]
    /\ UNCHANGED <<pods, pcmcs, nextUid, podCache, pcmcCache, synced, queues,
                   leaderVars, calls, fn, podPrograms, manager>>

InitConflict ==
    /\ pods = ("w1" :> Pod("w1", InitUid["w1"], ("app" :> "web"), "Running"))
              @@ ("w2" :> Pod("w2", InitUid["w2"], ("app" :> "db"), "Running"))
    /\ pcmcs = ("p1" :> Pcmc("p1", InitUid["p1"], 1, 0, WebSelector, <<"app">>))
    /\ cms = [n \in CMNames |->
                IF n = generateConfigMapName("w1", "p1") THEN StaleCM
                ELSE IF n = generateConfigMapName("w2", "p1") THEN MovedCM
                ELSE Absent]
    /\ nextUid = FirstFreeUid
    /\ InitController
    /\ role = [r \in Replicas |-> IF r = "r1" THEN "leading" ELSE "candidate"]
    /\ lease = [holder |-> "r1", age |-> 0, transitions |-> 0]
    /\ budget = [events |-> MaxWrites, failures |-> 0]
    /\ calls = NoCalls
    /\ fn = NoFn
    /\ podPrograms = NoPrograms
    /\ manager = NewManager

ConflictNext ==
    \/ TouchConfigMap(generateConfigMapName("w1", "p1"))
    \/ UpdatePod("w1")
    \/ PodInformerList
    \/ PcmcInformerList
    \/ PodInformerEvent("w1")
    \/ \E n \in PcmcNames : PcmcInformerEvent(n)
    \/ WorkerNext

SpecConflict == InitConflict /\ [][ConflictNext]_vars

-----------------------------------------------------------------------------
(* Shutdown: SIGINT / SIGTERM cancels the root context of main. Run returns  *)
(* and its deferred ShutDown calls close both queues; the informers stop;    *)
(* the workers go on with the context cancelled until Get reports shutdown;  *)
(* the leader elector calls OnStoppedLeading, which exits the process        *)

\* the signal goroutine of main calls cancel()
CancelRoot(r) ==
    /\ role[r] = "leading"
    /\ role' = [role EXCEPT ![r] = "stopping"]
    /\ UNCHANGED <<apiVars, ctrlVars, lease, budget, calls, fn, podPrograms, manager>>

\* Run returns, from WaitForCacheSync with an error (OnStartedLeading then
\* calls os.Exit(1)) or from <-ctx.Done(); either way the deferred ShutDown
\* of both queues runs
RunReturns(r) ==
    /\ role[r] = "stopping"
    /\ \E w \in WorkerIds : ~queues[w].shuttingDown
    /\ IF synced["pod"] /\ synced["pcmc"]
       THEN /\ queues' = [w \in WorkerIds |-> QShutDown(queues[w])]
            /\ UNCHANGED <<podCache, pcmcCache, synced, workers, role>>
       ELSE /\ role' = [role EXCEPT ![r] = "candidate"]
            /\ FreshController
    /\ UNCHANGED <<apiVars, lease, budget, calls, fn, podPrograms, manager>>

\* an API call made with the cancelled context returns the error of the
\* context: updatePcmcStatus logs it, the other callers record it
CallAborted(w) ==
    /\ Stopping
    /\ workers[w].pc \in ApiCallPcs
    /\ LET r == workers[w]
       IN IF r.pc = "status"
          THEN Proceed(w, ContinueAfterStatus(r, TRUE), workers, queues)
          ELSE Proceed(w, SetLastErr(r), workers, queues)
    /\ UNCHANGED <<apiVars, podCache, pcmcCache, synced, leaderVars, budget, calls, fn,
                   podPrograms, manager>>

\* the delayed Add of AddRateLimited while the process stops
DelayedAddStopping(w) ==
    /\ Stopping
    /\ \E key \in queues[w].waiting :
          queues' = [queues EXCEPT ![w] = QAdd([@ EXCEPT !.waiting = @ \ {key}], key)]
    /\ UNCHANGED <<apiVars, podCache, pcmcCache, synced, workers, leaderVars, budget,
                   calls, fn, podPrograms, manager>>

\* processNextPodWorkItem / processNextPcmcWorkItem return false when Get
\* reports shutdown, and the loop of runPodWorker / runPcmcWorker ends
WorkerExits(w) ==
    /\ WorkersStarted
    /\ workers[w].pc = "idle"
    /\ QGetReportsShutdown(queues[w])
    /\ workers' = [workers EXCEPT ![w].pc = "exited"]
    /\ UNCHANGED <<apiVars, podCache, pcmcCache, synced, queues, leaderVars, budget,
                   calls, fn, podPrograms, manager>>

\* OnStoppedLeading: os.Exit(0); the process is started again as a candidate
ExitAfterCancel(r) ==
    /\ role[r] = "stopping"
    /\ role' = [role EXCEPT ![r] = "candidate"]
    /\ FreshController
    /\ UNCHANGED <<apiVars, lease, budget, calls, fn, podPrograms, manager>>

StoppingNext ==
    \/ \E r \in Replicas : RunReturns(r)
    \/ \E w \in WorkerIds : CallAborted(w) \/ DelayedAddStopping(w) \/ WorkerExits(w)

ShutdownNext ==
    \/ DeletionNext
    \/ \E r \in Replicas : CancelRoot(r) \/ ExitAfterCancel(r)
    \/ StoppingNext

\* the goroutines of the process (Run, informers, workers, queue timers) are
\* scheduled again and again until it exits
FairSpecShutdown ==
    /\ InitDeletion
    /\ [][ShutdownNext]_vars
    /\ Fairness
    /\ WF_vars(\E r \in Replicas : RunReturns(r))
    /\ WF_vars(StoppingNext)


-----------------------------------------------------------------------------
(* A PCMC that is deleted and created again under its name while the leader *)
(* works: Pod w1 matches it before and after and has its ConfigMap at the   *)
(* start; one API call may fail                                              *)

MaxPolicyEdits == 2   \* the deletion of the PCMC and its creation

InitTombstone ==
    /\ pods = ("w1" :> Pod("w1", InitUid["w1"], ("app" :> "web"), "Running"))
              @@ ("w2" :> Absent)
    /\ pcmcs = ("p1" :> Pcmc("p1", InitUid["p1"], 1, 1, WebSelector, <<"app">>))
    /\ cms = [n \in CMNames |->
                IF n = generateConfigMapName("w1", "p1")
                THEN DesiredCM(pods["w1"], pcmcs["p1"]) ELSE Absent]
    /\ nextUid = FirstFreeUid
    /\ InitController
    /\ role = [r \in Replicas |-> IF r = "r1" THEN "leading" ELSE "candidate"]
    /\ lease = [holder |-> "r1", age |-> 0, transitions |-> 0]
    /\ budget = [events |-> MaxPolicyEdits, failures |-> MaxApiFailures]
    /\ calls = NoCalls
    /\ fn = NoFn
    /\ podPrograms = NoPrograms
    /\ manager = NewManager

TombstoneNext ==
    \/ DeletePcmc("p1")
    \/ CreatePcmc("p1")
    \/ PodInformerList
    \/ PcmcInformerList
    \/ \E n \in PcmcNames : PcmcInformerEvent(n)
    \/ WorkerNext

SpecTombstone == InitTombstone /\ [][TombstoneNext]_vars

-----------------------------------------------------------------------------
(* Properties *)

QueueDrained(q) ==
    q.queue = <<>> /\ q.dirty = {} /\ q.processing = {} /\ q.waiting = {}

\* every event has been delivered, both queues have drained, both workers idle
Quiescent ==
    /\ WorkersStarted
    /\ podCache = pods
    /\ pcmcCache = pcmcs
    /\ \A w \in WorkerIds : workers[w].pc = "idle" /\ QueueDrained(queues[w])

Selects(pcmc, pod) ==
    ~pcmc.podSelector.set \/ SelectorMatches(pcmc.podSelector, pod.labels)

LivePairs ==
    {pair \in PodNames \X PcmcNames : pods[pair[1]].exists /\ pcmcs[pair[2]].exists}

PairCM(pair) == cms[generateConfigMapName(pair[1], pair[2])]

PairCorrect(pair) ==
    /\ PairCM(pair).exists
    /\ PairCM(pair).data = ConfigData(pods[pair[1]], pcmcs[pair[2]])
    /\ PairCM(pair).owners = <<OwnerRef(pods[pair[1]])>>

\* C1: once the events are delivered and the queues have drained, every Pod and
\* PCMC of the namespace whose selector is absent or matches has its ConfigMap,
\* with the projection of the current Pod and PCMC as data and the Pod as owner
C1_MatchingPairsConverge ==
    Quiescent =>
        \A pair \in LivePairs :
            Selects(pcmcs[pair[2]], pods[pair[1]]) => PairCorrect(pair)


\* C2: once the events are delivered and the queues have drained, a Pod and a
\* PCMC whose selector is set and does not match the Pod's labels have no ConfigMap
C2_NonMatchingPairsHaveNoCM ==
    Quiescent =>
        \A pair \in LivePairs :
            ~Selects(pcmcs[pair[2]], pods[pair[1]]) => ~PairCM(pair).exists

\* C3: once the events are delivered and the queues have drained, no ConfigMap
\* named after a deleted PCMC is left for any Pod of the namespace
C3_DeletedPcmcLeavesNoCM ==
    Quiescent =>
        \A w \in PodNames, p \in PcmcNames :
            (pods[w].exists /\ ~pcmcs[p].exists)
                => ~cms[generateConfigMapName(w, p)].exists

\* the uids of the Pods the cluster starts with
PodUids == {InitUid[n] : n \in PodNames}

\* the Pod with this uid has been deleted
Gone(uid) == \A n \in PodNames : ~(pods[n].exists /\ pods[n].uid = uid)

\* the ConfigMaps that name the Pod with this uid as an owner
OwnedBy(uid) ==
    {n \in CMNames : cms[n].exists /\ \E i \in DOMAIN cms[n].owners : cms[n].owners[i].uid = uid}

\* the ConfigMaps the Pod worker is going to delete in its current work item
PlannedDeletes(r) ==
    {generateConfigMapName(r.pod.name, x.name) : x \in r.todo \cup {r.pcmc}}

\* the Pod worker takes a key whose Pod is missing from the cache
StartsDeletedPod ==
    /\ workers["pod"].pc = "idle"
    /\ workers'["pod"].pc # "idle"
    /\ ~podCache[KeyName(workers'["pod"].key)].exists

\* the Pod worker's delete finds no ConfigMap
DeleteFindsNothing ==
    /\ workers["pod"].pc = "delete"
    /\ workers["pod"].mode = "cleanup"
    /\ ~cms[CurName(workers["pod"])].exists
    /\ budget' = budget
    /\ workers'["pod"] # workers["pod"]

\* C4: after a Pod is deleted, eventually no ConfigMap owned by it exists; the
\* Pod reconcile that finds the Pod missing from the cache goes on to delete the
\* ConfigMap of the Pod's name and every cached PCMC, a delete that finds no
\* ConfigMap is no error, and the garbage collector removes what is left
C4_DeletedPodLeavesNoCM ==
    /\ [][StartsDeletedPod =>
            /\ workers'["pod"].pc = "delete"
            /\ workers'["pod"].mode = "cleanup"
            /\ PlannedDeletes(workers'["pod"])
                 = {generateConfigMapName(KeyName(workers'["pod"].key), x.name) :
                        x \in CachedPcmcs}]_vars
    /\ [][DeleteFindsNothing =>
            \/ workers'["pod"].pc = "delete" /\ workers'["pod"].lastErr = NoError
            \/ /\ workers'["pod"].pc = "idle"
               /\ (workers["pod"].lastErr # NoError)
                    = (workers["pod"].key \in queues'["pod"].backoff)]_vars
    /\ \A uid \in PodUids : Gone(uid) ~> (OwnedBy(uid) = {})

\* a Pod has been deleted and a ConfigMap still names it as its owner
C4_Witness ==
    \E uid \in PodUids : Gone(uid) /\ OwnedBy(uid) # {}

\* C5: once the events are delivered and the queues have drained, the
\* observedGeneration of every PCMC equals its generation
C5_ObservedGenerationConverges ==
    Quiescent =>
        \A p \in PcmcNames :
            pcmcs[p].exists => pcmcs[p].observedGeneration = pcmcs[p].generation

\* the ConfigMap of the pair reflects the cached Pod and the given PCMC
Reflects(pod, pcmc) ==
    LET cm == cms[generateConfigMapName(pod.name, pcmc.name)]
    IN IF Selects(pcmc, pod)
       THEN cm.exists /\ cm.data = ConfigData(pod, pcmc) /\ cm.owners = <<OwnerRef(pod)>>
       ELSE ~cm.exists

\* C6: the step that sets observedGeneration to G is taken only when every Pod
\* of the namespace has been synced against the spec of generation G
C6_StatusOnlyAfterProcessing ==
    [][\A p \in PcmcNames :
          (pcmcs[p].exists /\ pcmcs'[p].exists
           /\ pcmcs'[p].observedGeneration # pcmcs[p].observedGeneration)
          => \A pod \in CachedPods : Reflects(pod, pcmcs'[p])]_vars


InFlight(w) == IF workers[w].pc = "idle" THEN {} ELSE {workers[w].key}

\* call i of the sync driver has returned
Returned(i) == i < calls.n \/ workers["pod"].pc = "idle"

\* the ConfigMap a call of the sync leaves behind when it finds cm (the one it
\* finds when the projected data is rejected)
Wanted(cm) ==
    LET pod == pods[SyncPod]
        pcmc == pcmcs[SyncPcmc]
    IN IF pcmc.podSelector.set /\ ~SelectorMatches(pcmc.podSelector, pod.labels)
       THEN Absent
       ELSE IF ~ValidateConfigMapData(ConfigData(pod, pcmc)) THEN cm
       ELSE IF cm.exists THEN MergedCM(cm, pod, pcmc) ELSE DesiredCM(pod, pcmc)

HoldsLease(r) == lease.holder = r /\ lease.age < LeaseDuration

LeadingReplicas == {r \in Replicas : role[r] = "leading"}

\* a step of the controller: an informer or a worker enqueues a key, or a
\* worker writes a ConfigMap or the status of a PCMC
ControllerActs ==
    \/ queues' # queues
    \/ workers' # workers
    \/ podCache' # podCache
    \/ pcmcCache' # pcmcCache
    \/ pcmcs' # pcmcs
    \/ calls' # calls

\* C8: at most one replica runs the workers and it holds the lease, and every
\* step that enqueues a key, writes a ConfigMap or writes a PCMC status is
\* taken while the one replica that runs the workers holds the lease
C8_SingleLeaderActs ==
    /\ [](Cardinality(LeadingReplicas) <= 1)
    /\ [](\A r \in LeadingReplicas : HoldsLease(r))
    /\ [][ControllerNext => \E r \in Replicas : LeadingReplicas = {r} /\ HoldsLease(r)]_vars

\* the lease has changed hands and the new holder's worker is writing a
\* ConfigMap while the other replica is a candidate
C8_Witness ==
    /\ lease.transitions > 0
    /\ \E r \in Replicas :
          /\ LeadingReplicas = {r}
          /\ HoldsLease(r)
          /\ \E w \in WorkerIds : workers[w].pc \in {"create", "update", "delete"}

C10_SingleInFlight ==
    \A w \in WorkerIds :
        /\ queues[w].processing = InFlight(w)
        /\ Cardinality(queues[w].processing) <= 1
        /\ queues[w].processing \cap Range(queues[w].queue) = {}

\* a key was added while its reconcile is running and waits for Done
C10_Witness ==
    \E w \in WorkerIds :
        /\ workers[w].pc # "idle"
        /\ workers[w].key \in queues[w].dirty
        /\ workers[w].key \in queues[w].processing

\* the number of entries of the queue that hold the key
Pending(q, key) == Cardinality({i \in DOMAIN q.queue : q.queue[i] = key})

\* a key is given to Done
DoneFor(w, key) == key \in queues[w].processing /\ key \notin queues'[w].processing

\* C11: a key is pending at most once however often it is added; a key added
\* while it is in flight is kept aside and queued exactly once when Done is
\* called, and a key that was not added in the meantime is not queued by Done
C11_AddsCoalesce ==
    /\ [](\A w \in WorkerIds :
            /\ \A key \in Range(queues[w].queue) : Pending(queues[w], key) = 1
            /\ Range(queues[w].queue) = queues[w].dirty \ queues[w].processing)
    /\ [][\A w \in WorkerIds : \A key \in queues[w].processing :
            DoneFor(w, key) =>
                Pending(queues'[w], key) = (IF key \in queues[w].dirty THEN 1 ELSE 0)]_vars

\* the update event of w1 has arrived while the key of w1, queued by the initial
\* list, is still pending: the queue holds the key once
C11_Witness ==
    /\ synced["pod"] /\ ~synced["pcmc"]
    /\ podCache["w1"].exists /\ podCache["w1"].labels = ("app" :> "api")
    /\ Pending(queues["pod"], MetaNamespaceKey("w1")) = 1

\* the keys the handlers of a queue can add
KeysOf(w) ==
    IF w = "pod" THEN {MetaNamespaceKey(n) : n \in PodNames}
    ELSE {MetaNamespaceKey(n) : n \in PcmcNames}
         \cup {DeletedPrefix \o MetaNamespaceKey(n) : n \in PcmcNames}

\* the key that waited is in flight, or its reconcile is already over: it
\* neither waits nor is pending, and only Get takes a key out of the queue
TakenAgain(w, key) ==
    \/ key \in queues[w].processing
    \/ key \notin queues[w].waiting /\ key \notin queues[w].dirty

\* the API call the worker is at returns an error the sync returns
FailsNow(w) ==
    LET r == workers[w]
    IN /\ r.pc \in {"get", "create", "update", "delete"}
       /\ \/ budget'.failures < budget.failures
          \/ r.pc = "create" /\ cms[CurName(r)].exists
          \/ r.pc = "update" /\ ~cms[CurName(r)].exists
          \/ r.pc = "update" /\ ~r.fresh /\ r.attempt >= RetrySteps

\* C12: the key given to Done is the key the worker took with Get, prefix
\* included; with Done the key has either been handed to AddRateLimited (it
\* waits for its delayed Add and the rate limiter counts it), when a sync of
\* the work item has failed, or been forgotten by the rate limiter, when none
\* has; a key that waits for its delayed Add is eventually taken again
C12_WorkItemLifecycle ==
    /\ [](\A w \in WorkerIds : queues[w].processing \subseteq KeysOf(w))
    /\ [][\A w \in WorkerIds : \A key \in queues[w].processing :
            DoneFor(w, key) =>
                /\ key = workers[w].key
                /\ workers'[w] = IdleWorker
                /\ queues'[w].processing = queues[w].processing \ {key}
                /\ IF workers[w].lastErr # NoError \/ FailsNow(w)
                   THEN key \in queues'[w].waiting /\ key \in queues'[w].backoff
                   ELSE /\ key \notin queues'[w].backoff
                        /\ queues'[w].waiting = queues[w].waiting]_vars
    /\ \A w \in WorkerIds : \A key \in KeysOf(w) :
            (key \in queues[w].waiting) ~> TakenAgain(w, key)

\* the reconcile of a key with the DELETED: prefix has failed: the key, prefix
\* included, waits for its delayed Add
C12_Witness ==
    \E n \in PcmcNames :
        /\ DeletedPrefix \o MetaNamespaceKey(n) \in queues["pcmc"].waiting
        /\ DeletedPrefix \o MetaNamespaceKey(n) \in queues["pcmc"].backoff

\* worker w takes the key at the head of its queue and its reconcile returns
\* without an API call
ReturnsAtOnce(w) ==
    /\ workers[w].pc = "idle" /\ workers'[w].pc = "idle"
    /\ queues[w].queue # <<>>
    /\ queues'[w].queue = Tail(queues[w].queue)

\* C13: a reconcile that fails with validation errors only (it returns before
\* any API call, so no other error can have occurred) does not requeue its key:
\* the rate limiter holds no failure of the key afterwards
C13_ValidationNotRequeued ==
    [][\A w \in WorkerIds :
          ReturnsAtOnce(w) => Head(queues[w].queue) \notin queues'[w].backoff]_vars

\* the Pod and the PCMC of the sync driver
SyncSelected ==
    ~pcmcs[SyncPcmc].podSelector.set
        \/ SelectorMatches(pcmcs[SyncPcmc].podSelector, pods[SyncPod].labels)

BadDataKey ==
    \E key \in DOMAIN ConfigData(pods[SyncPod], pcmcs[SyncPcmc]) :
        ~validateConfigMapDataKey(key)

\* the step is a call of the sync that returns a validation error without an
\* API call, the ConfigMaps staying as they are
RejectedCall ==
    /\ calls'.invalid[calls'.n]
    /\ workers'["pod"] = IdleWorker
    /\ cms' = cms

\* C14 as stated: a call of the sync on a pair whose projected data holds a key
\* that is not a ConfigMap data key returns a validation error and performs no
\* create, update or delete
C14_BadKeyRejectsSync ==
    [][(calls'.n = calls.n + 1 /\ BadDataKey) => RejectedCall]_vars

\* C14 amended: the same for a pair the PCMC selects (no podSelector, or one
\* that matches the Pod); a call that has returned a validation error has
\* performed no write
C14_BadKeyRejectsSelectedSync ==
    /\ [][(calls'.n = calls.n + 1 /\ BadDataKey /\ SyncSelected) => RejectedCall]_vars
    /\ [](\A i \in 1..calls.n :
             calls.invalid[i] =>
                /\ calls.writes[i] = 0
                /\ i = calls.n =>
                      /\ workers["pod"] = IdleWorker
                      /\ cms[generateConfigMapName(SyncPod, SyncPcmc)] = calls.before[i])

\* a call on a selected pair with a rejected key has returned and the
\* ConfigMap it found is still there
C14_Witness ==
    /\ calls.n >= 1 /\ calls.invalid[calls.n]
    /\ SyncSelected /\ BadDataKey
    /\ cms[generateConfigMapName(SyncPod, SyncPcmc)].exists

\* C16: every result of SanitizeConfigMapName is accepted by
\* ValidateConfigMapName: it is not empty, at most 253 characters long, made of
\* a-z, 0-9 and '-' only, and neither starts nor ends with '-'
C16_SanitizedNameIsValid ==
    fn.op = "sanitize" =>
        \A i \in 1..Len(fn.out) :
            LET name == fn.out[i]
            IN /\ ValidateConfigMapName(name)
               /\ Len(name) \in 1..253
               /\ \A j \in 1..Len(name) :
                     CharAt(name, j) \in LowerChars \cup DigitChars \cup {"-"}
               /\ CharAt(name, 1) # "-" /\ CharAt(name, Len(name)) # "-"

\* an input longer than the limit has been cut and the hyphens the cut
\* exposed have been trimmed
C16_Witness ==
    /\ fn.op = "sanitize" /\ Len(fn.out) >= 1
    /\ Len(fn.arg[1]) > MaxConfigMapNameLength
    /\ Len(fn.out[1]) < MaxConfigMapNameLength

\* C17: sanitizing a sanitized name gives the same name
C17_SanitizeIdempotent ==
    (fn.op = "sanitize" /\ Len(fn.out) >= 2) =>
        \A i \in 2..Len(fn.out) : fn.out[i] = fn.out[1]

\* sanitize has been applied twice to an input that it changes
C17_Witness ==
    /\ fn.op = "sanitize" /\ Len(fn.out) >= 2
    /\ fn.out[1] # fn.arg[1]
    /\ fn.out[1] # "configmap"

\* C15: the name the sync uses for a Pod and a PCMC is the sanitized
\* "pod-<pod name>-from-<pcmc name>-cfg": it is a valid ConfigMap name and the
\* pair is not rejected, whatever characters the two names hold
C15_NameIsSanitized ==
    (fn.op = "name" /\ fn.out # <<>>) =>
        /\ fn.out[1].name
              = SanitizeConfigMapName("pod-" \o fn.arg[1] \o "-from-" \o fn.arg[2] \o "-cfg")
        /\ ValidateConfigMapName(fn.out[1].name)
        /\ ~fn.out[1].rejected

MandatoryKeys == {"podName", "namespace", "nodeName", "phase", "pcmcName"}

CreateFindsExisting(w) ==
    /\ workers[w].pc = "create"
    /\ cms[CurName(workers[w])].exists
    /\ workers'[w] # workers[w]
    /\ budget' = budget

\* C19: a Create answered by AlreadyExists is treated as a conflict: the sync
\* goes back to the Get of the same pair for its next attempt and returns no
\* error
C19_AlreadyExistsRetried ==
    [][\A w \in WorkerIds :
          CreateFindsExisting(w) =>
              /\ workers'[w].pc = "get"
              /\ workers'[w].pod = workers[w].pod /\ workers'[w].pcmc = workers[w].pcmc
              /\ workers'[w].attempt = workers[w].attempt + 1
              /\ workers'[w].lastErr = NoError]_vars

SyncName == generateConfigMapName(SyncPod, SyncPcmc)

\* the step is the Update of the sync and the API server accepts it
UpdateWrites ==
    /\ workers["pod"].pc = "update"
    /\ cms[SyncName].exists /\ cms'[SyncName].exists
    /\ cms'[SyncName] # cms[SyncName]

\* C20: an Update of the sync leaves every label of the ConfigMap other than
\* the two reserved ones in place with its value
C20_UpdateKeepsOtherLabels ==
    [][UpdateWrites =>
          \A k \in DOMAIN cms[SyncName].labels \ {GeneratedByLabel, PodUidLabel} :
              /\ k \in DOMAIN cms'[SyncName].labels
              /\ cms'[SyncName].labels[k] = cms[SyncName].labels[k]]_vars

\* a ConfigMap that carried a label of a user has been updated by the sync
C20_Witness ==
    /\ calls.n >= 1
    /\ calls.writes[calls.n] = 1
    /\ calls.before[calls.n].exists
    /\ UserLabel \in DOMAIN calls.before[calls.n].labels
    /\ cms[SyncName].exists
    /\ cms[SyncName].data # calls.before[calls.n].data

\* the step is the UpdateStatus call of the PCMC worker and the call fails
StatusFails ==
    /\ workers["pcmc"].pc = "status"
    /\ workers'["pcmc"] # workers["pcmc"]
    /\ pcmcs' = pcmcs

\* C21: after a failed status update the reconcile of the PCMC goes on with
\* every Pod of the namespace (the Pod of its next sync and the Pods still to
\* do are the cached Pods) and holds no error; with no Pod it ends at once and
\* the key is forgotten
C21_StatusFailureDoesNotAbort ==
    [][StatusFails =>
          LET r == workers["pcmc"]
              after == workers'["pcmc"]
          IN IF CachedPods = {}
             THEN /\ after = IdleWorker
                  /\ r.key \notin queues'["pcmc"].backoff
                  /\ queues'["pcmc"].waiting = queues["pcmc"].waiting
             ELSE /\ after.pc \in {"get", "delete"}
                  /\ after.key = r.key /\ after.pcmc = r.pcmc
                  /\ {after.pod} \cup after.todo = CachedPods
                  /\ after.lastErr = NoError]_vars

\* the PCMC worker syncs a Pod although its status update has failed: the
\* PCMC it holds needed the update and the PCMC of that generation still
\* lacks it
C21_Witness ==
    LET r == workers["pcmc"]
    IN /\ r.pc = "get" /\ r.mode = "sync"
       /\ r.pcmc.observedGeneration # r.pcmc.generation
       /\ pcmcs[r.pcmc.name].exists
       /\ pcmcs[r.pcmc.name].generation = r.pcmc.generation
       /\ pcmcs[r.pcmc.name].observedGeneration # r.pcmc.generation

\* the step is the UpdateStatus call of the PCMC worker and the API server
\* rejects it because the PCMC has changed since the worker read it
StatusConflicts ==
    /\ workers["pcmc"].pc = "status"
    /\ workers'["pcmc"] # workers["pcmc"]
    /\ budget' = budget
    /\ pcmcs[workers["pcmc"].pcmc.name].exists
    /\ pcmcs[workers["pcmc"].pcmc.name] # workers["pcmc"].pcmc

\* C22: after a conflict the status writer reads the PCMC from the cache again
\* and is at its UpdateStatus call once more
C22_StatusConflictRetriedOnce ==
    [][StatusConflicts =>
          /\ workers'["pcmc"].pc = "status"
          /\ workers'["pcmc"].pcmc = pcmcCache[workers["pcmc"].pcmc.name]]_vars

\* the PCMC worker has nothing to do and nothing is on its way to it
PcmcQueueAtRest ==
    /\ QueueDrained(queues["pcmc"])
    /\ workers["pcmc"].pc = "idle"

\* C23: a status write is issued only by a reconcile that found
\* observedGeneration different from generation in the cache and it sets
\* observedGeneration to the generation that reconcile read; the PCMC worker
\* is at its UpdateStatus call only for such a PCMC; once the users' edits
\* have ended, the PCMC queue empties and stays empty
C23_StatusWriteDoesNotLivelock ==
    /\ [][\A n \in PcmcNames :
            (pcmcs[n].exists /\ pcmcs'[n].exists /\ pcmcs'[n].uid = pcmcs[n].uid
                /\ pcmcs'[n].observedGeneration # pcmcs[n].observedGeneration) =>
                /\ workers["pcmc"].pc = "status"
                /\ workers["pcmc"].pcmc.name = n
                /\ workers["pcmc"].pcmc.observedGeneration # workers["pcmc"].pcmc.generation
                /\ pcmcs'[n].observedGeneration = workers["pcmc"].pcmc.generation]_vars
    /\ [](workers["pcmc"].pc = "status" =>
             workers["pcmc"].pcmc.observedGeneration # workers["pcmc"].pcmc.generation)
    /\ <>[]PcmcQueueAtRest

\* the status write has been made, its update event has requeued the key, and
\* the reconcile of that key has ended without another write
C23_Witness ==
    /\ PcmcQueueAtRest
    /\ pcmcs["p1"].exists /\ pcmcCache["p1"] = pcmcs["p1"]
    /\ pcmcs["p1"].observedGeneration = pcmcs["p1"].generation

\* the Pod worker takes the key at the head of its queue
TakesPodKey ==
    /\ workers["pod"].pc = "idle"
    /\ queues["pod"].queue # <<>>
    /\ queues'["pod"].queue = Tail(queues["pod"].queue)

\* the Pod of that key as the reconcile reads it from the cache
TakenPod == podCache[KeyName(Head(queues["pod"].queue))]

\* C24: the reconcile of a Pod that fails validation (its phase is none of
\* Pending, Running, Succeeded, Failed) ends without an API call: no ConfigMap
\* is written, and the key is forgotten and not requeued
C24_InvalidPodIsSkipped ==
    [][(/\ TakesPodKey
        /\ TakenPod.exists
        /\ TakenPod.phase \notin {"Pending", "Running", "Succeeded", "Failed"}) =>
          /\ workers'["pod"] = IdleWorker
          /\ cms' = cms
          /\ Head(queues["pod"].queue) \notin queues'["pod"].backoff
          /\ queues'["pod"].waiting = queues["pod"].waiting
          /\ Head(queues["pod"].queue) \notin Range(queues'["pod"].queue)]_vars

\* the key of the Pod in phase Unknown has been taken and dropped while the
\* PCMC was in the cache: the Pod queue has drained, the PCMC worker has not
\* started on the PCMC yet, and the Pod has no ConfigMap
C24_Witness ==
    /\ pods["w1"].exists /\ pods["w1"].phase = "Unknown"
    /\ podCache["w1"] = pods["w1"] /\ pcmcCache["p1"].exists
    /\ QueueDrained(queues["pod"]) /\ workers["pod"].pc = "idle"
    /\ queues["pcmc"].queue = <<MetaNamespaceKey("p1")>> /\ workers["pcmc"].pc = "idle"
    /\ ~cms[generateConfigMapName("w1", "p1")].exists

\* C25: a Pod with a name and a namespace is synced against the PCMCs of its
\* namespace exactly when its phase is one of Pending, Running, Succeeded,
\* Failed, Unknown: with a PCMC in the cache, the reconcile of its key goes on
\* to the API calls of a sync in these phases and in no other
C25_PhaseDecidesValidation ==
    [][(TakesPodKey /\ TakenPod.exists /\ CachedPcmcs # {}) =>
          /\ ValidatePod(TakenPod)
                <=> TakenPod.phase \in {"Pending", "Running", "Succeeded", "Failed", "Unknown"}
          /\ workers'["pod"].mode = "sync"
                <=> TakenPod.phase \in {"Pending", "Running", "Succeeded", "Failed", "Unknown"}]_vars

EndsPcmcReconcile ==
    /\ workers["pcmc"].pc # "idle"
    /\ workers'["pcmc"].pc = "idle"
    /\ workers["pcmc"].mode = "sync"

\* C29: when a PCMC-keyed reconcile of an existing PCMC that has an ebpfConfig
\* ends, the eBPF Manager holds a program with that config for every Pod of
\* the namespace the reconcile listed
C29_ReconcileAttachesPrograms ==
    [][(EndsPcmcReconcile /\ workers["pcmc"].pcmc.ebpfConfig # Absent) =>
          \A pod \in CachedPods :
              /\ pod.uid \in DOMAIN podPrograms'
              /\ podPrograms'[pod.uid].Config = workers["pcmc"].pcmc.ebpfConfig]_vars

\* C26: a reconcile whose API call never returns ends all the same: the
\* worker comes back to its loop with the key waiting for its backoff delay
\* or queued again
C26_StuckCallTimesOut ==
    \A w \in WorkerIds :
        \A key \in {MetaNamespaceKey(n) : n \in PodNames \cup PcmcNames} :
            (workers[w].pc = "hung" /\ workers[w].key = key)
                ~> (workers[w].pc # "hung"
                       /\ key \in queues[w].waiting \cup queues[w].dirty)

\* C28: Pod w1 and the PCMC that selects it stay as they are; whenever their
\* ConfigMap is missing, a later reconcile creates it again
C28_ResyncRestoresConfigMap ==
    ~cms[generateConfigMapName("w1", "p1")].exists
        ~> cms[generateConfigMapName("w1", "p1")].exists

WorkerExited(w) == workers[w].pc = "exited"

\* both queues are shut down and both worker loops have ended
GracefullyStopped ==
    /\ Stopping
    /\ \A w \in WorkerIds : queues[w].shuttingDown /\ WorkerExited(w)

\* C27: after the root context is cancelled both queues are shut down and both
\* worker loops end (unless the process exits first); a worker whose Get has
\* reported shutdown starts no reconcile, and a queue that is shut down stays
\* shut down while the process lives
C27_ShutdownEndsWorkers ==
    /\ [][\A w \in WorkerIds :
             /\ (WorkerExited(w) /\ Stopping') => workers'[w] = workers[w]
             /\ (queues[w].shuttingDown /\ Stopping') => queues'[w].shuttingDown]_vars
    /\ [](\A w \in WorkerIds : WorkerExited(w) => QGetReportsShutdown(queues[w]))
    /\ Stopping ~> (~Stopping \/ GracefullyStopped)

\* the context was cancelled while the Pod worker had an API call to make, the
\* call returned the error of the context (no other call has failed); both
\* loops have ended and the process has not exited yet
C27_Witness ==
    /\ GracefullyStopped
    /\ budget.failures = MaxApiFailures
    /\ queues["pod"].backoff # {}

\* a step that stores a new status.observedGeneration for PCMC n
StatusStored(n) ==
    /\ pcmcs[n].exists
    /\ pcmcs'[n].exists
    /\ pcmcs'[n].uid = pcmcs[n].uid
    /\ pcmcs'[n].observedGeneration # pcmcs[n].observedGeneration

\* C37: status.observedGeneration of a PCMC is never above its
\* metadata.generation, and a status write that is stored records the
\* generation the PCMC has at that moment: one computed from an older copy is
\* rejected
C37_ObservedGenerationBounded ==
    /\ [](\A n \in PcmcNames :
             pcmcs[n].exists => pcmcs[n].observedGeneration <= pcmcs[n].generation)
    /\ [][\A n \in PcmcNames :
             StatusStored(n) => pcmcs'[n].observedGeneration = pcmcs[n].generation]_vars

\* the PCMC was edited after the worker read it: the status write of the
\* worker was rejected (no call failed otherwise) and the reconcile goes on
C37_Witness ==
    /\ workers["pcmc"].mode = "sync"
    /\ workers["pcmc"].pc \notin {"idle", "status"}
    /\ workers["pcmc"].pcmc.generation = 1
    /\ pcmcs["p1"].exists
    /\ pcmcs["p1"].generation = 2
    /\ pcmcs["p1"].observedGeneration = 0
    /\ budget.failures = MaxApiFailures

\* C34: a step of the controller (its informers, workers and queue timers) leaves every Pod as it is and changes nothing
\* of a PCMC but its status: the PCMCs stay the same objects with the same
\* spec and the same generation
C34_ControllerWritesOnlyCMsAndStatus ==
    [][ControllerNext =>
          /\ pods' = pods
          /\ \A n \in PcmcNames :
                pcmcs'[n] = IF pcmcs[n].exists
                            THEN [pcmcs[n] EXCEPT !.observedGeneration =
                                                     pcmcs'[n].observedGeneration]
                            ELSE pcmcs[n]]_vars

\* the status of the PCMC has been written and a ConfigMap has been created
C34_Witness ==
    /\ pcmcs["p1"].exists
    /\ pcmcs["p1"].observedGeneration = pcmcs["p1"].generation
    /\ pcmcs["p1"].generation = 1
    /\ budget.events = MaxEvents
    /\ \E n \in CMNames : cms[n].exists

\* worker w, at an API call of a pair, takes a step of its reconcile
PairStep(w) ==
    /\ workers[w].pc \in {"get", "create", "update", "delete"}
    /\ [workers'[w] EXCEPT !.fresh = FALSE] # [workers[w] EXCEPT !.fresh = FALSE]

\* the object the key of worker w is paired with in the pair of r
Partner(w, r) == IF w = "pod" THEN r.pcmc ELSE r.pod

\* C33: in the loop of a reconcile over the pairs of its key (every pair with
\* a valid name and valid data), the reconcile goes on with a pair that was
\* left to do whether the current pair has failed or not, and ends only when
\* none is left; lastErr is the name of the first pair that failed and is
\* kept to the end; the reconcile returns an error (the key is counted by the
\* rate limiter) exactly when some pair has failed
C33_PairErrorsDoNotStopTheLoop ==
    [][\A w \in WorkerIds :
          PairStep(w) =>
              LET r == workers[w]
                  after == workers'[w]
              IN IF after.pc = "idle"
                 THEN /\ r.todo = {}
                      /\ (r.lastErr # NoError \/ FailsNow(w))
                            <=> (r.key \in queues'[w].backoff)
                 ELSE /\ after.key = r.key
                      /\ \/ after.todo = r.todo /\ Partner(w, after) = Partner(w, r)
                         \/ /\ Partner(w, after) \in r.todo
                            /\ after.todo = r.todo \ {Partner(w, after)}
                      /\ after.lastErr = IF r.lastErr # NoError THEN r.lastErr
                                         ELSE IF FailsNow(w) THEN CurName(r)
                                         ELSE NoError]_vars

\* the sync of the first Pod of a PCMC-keyed reconcile has failed and the
\* worker is at the API call of the second Pod
C33_Witness ==
    LET r == workers["pcmc"]
    IN /\ r.pc \in {"get", "create", "update"}
       /\ r.mode = "sync"
       /\ r.lastErr # NoError
       /\ r.lastErr # CurName(r)
       /\ r.todo = {}

\* worker w is at the Update of its pair and the call returns
UpdateReturns(w) == PairStep(w) /\ workers[w].pc = "update"

\* the Update of worker w returns an error that the sync returns
UpdateFailed(w) ==
    IF workers'[w].pc = "idle" THEN workers[w].key \in queues'[w].backoff
    ELSE workers'[w].lastErr # NoError

\* the Update of worker w is retried: the closure runs again from its Get
UpdateRetried(w) ==
    /\ workers'[w].pc = "get"
    /\ workers'[w].pod = workers[w].pod /\ workers'[w].pcmc = workers[w].pcmc
    /\ workers'[w].attempt = workers[w].attempt + 1
    /\ workers'[w].lastErr = workers[w].lastErr

\* C32 as stated: an Update whose ConfigMap has been written since the Get
\* of the same attempt is not applied, and the sync reads the ConfigMap
\* again, while it has made fewer than 5 attempts
C32_StaleUpdateRetried ==
    [][\A w \in WorkerIds :
          (UpdateReturns(w) /\ ~workers[w].fresh) =>
              /\ cms' = cms
              /\ workers[w].attempt < RetrySteps => UpdateRetried(w)]_vars

\* C32, amended: every write of a ConfigMap by someone else makes the copy a
\* worker has read stale; an Update is applied, as the merge into the version
\* read, only when that version is still the live one; a stale Update writes
\* nothing, and it is retried from the Get when the ConfigMap still exists and
\* fewer than 5 attempts were made; when the ConfigMap has been deleted, or
\* on the fifth attempt, the sync returns the error
C32_StaleUpdateRetriedWhileExists ==
    /\ [](\A w \in WorkerIds : workers[w].attempt <= RetrySteps)
    /\ [][\A w \in WorkerIds :
             (workers[w].pc = "update" /\ ~PairStep(w)
                 /\ cms'[CurName(workers[w])] # cms[CurName(workers[w])])
                => ~workers'[w].fresh]_vars
    /\ [][\A w \in WorkerIds :
             UpdateReturns(w) =>
                 LET r == workers[w]
                     live == cms[CurName(r)]
                 IN IF r.fresh
                    THEN /\ live.exists
                         /\ cms' = [cms EXCEPT ![CurName(r)] = MergedCM(live, r.pod, r.pcmc)]
                    ELSE /\ cms' = cms
                         /\ IF live.exists /\ r.attempt < RetrySteps
                            THEN UpdateRetried(w)
                            ELSE UpdateFailed(w)]_vars

\* the ConfigMap has been written after each of the five Gets of one sync
C32_Witness ==
    \E w \in WorkerIds :
        /\ workers[w].pc = "update"
        /\ workers[w].attempt = RetrySteps
        /\ ~workers[w].fresh
        /\ cms[CurName(workers[w])].exists

\* C35: two different (Pod, PCMC) pairs of one namespace are given different
\* ConfigMap names
C35_DistinctPairsDistinctNames ==
    (fn.op = "pairs" /\ fn.out # <<>>
        /\ <<fn.arg[1], fn.arg[2]>> # <<fn.arg[3], fn.arg[4]>>)
       => fn.out[1].name # fn.out[2].name

CachesSynced == synced["pod"] /\ synced["pcmc"]

\* C38: while a cache has not completed its initial list no worker has taken
\* a key or is in a reconcile, whatever the handlers have queued; when the
\* root context is cancelled before both caches have synced, no cache syncs
\* any more and the return of Run ends the process with the workers never
\* started
C38_NoReconcileBeforeSync ==
    /\ [](~CachesSynced =>
            \A w \in WorkerIds : workers[w] = IdleWorker /\ queues[w].processing = {})
    /\ [][(Stopping /\ ~CachesSynced) =>
             /\ synced' = synced \/ ~Stopping'
             /\ workers' = workers
             /\ \A w \in WorkerIds : queues'[w].processing = {}
             /\ (\E r \in Replicas : RunReturns(r)) => ~Stopping']_vars

\* the Pod cache has synced and its handlers have queued a key, the PCMC
\* cache has not, and the root context is cancelled
C38_Witness ==
    /\ Stopping
    /\ synced["pod"] /\ ~synced["pcmc"]
    /\ queues["pod"].queue # <<>>

\* C39: when AttachToPod returns an error for a Pod that had no program,
\* podPrograms has no entry for the Pod and no handle opened by the call is
\* left open
C39_FailedAttachLeavesNothing ==
    [][\A uid \in ManagerUids :
          (/\ manager'.ret.op = "AttachToPod" /\ manager'.ret.uid = uid /\ manager'.ret.err
           /\ uid \notin DOMAIN podPrograms) =>
              /\ uid \notin DOMAIN podPrograms'
              /\ manager'.orphans = manager.orphans]_vars

C31_DefaultActionDecidesUnmatched ==
    (fn.op = "firewall" /\ fn.out # <<>>) =>
        LET config == fn.arg[1]
            packet == fn.arg[2]
            listed == {config.allowedPorts[i] : i \in DOMAIN config.allowedPorts}
                      \cup {config.blockedPorts[i] : i \in DOMAIN config.blockedPorts}
        IN packet.port \notin listed =>
              (fn.out[1] = "TC_ACT_SHOT" <=> config.defaultAction = "block")

\* C36: the PCMC has been deleted and created again; once every event is
\* delivered, no key is queued or waiting for its delay (the DELETED: key
\* included) and the workers are idle, the Pod that the new PCMC selects has
\* its ConfigMap
C36_TombstoneLeavesConfigMap ==
    (Quiescent /\ budget.events = 0 /\ pcmcs["p1"].exists
        /\ Selects(pcmcs["p1"], pods["w1"])) =>
        cms[generateConfigMapName("w1", "p1")].exists

====
